---- MODULE Spec2Model ----
(***************************************************************************)
(* Block mining and destruction subsystem of IdleGame1.                    *)
(*                                                                         *)
(*   BlockSystem            src/src/game/blocks.rs    (the voxel store)    *)
(*   PlayerDestroyingState  src/src/game/stateful.rs  (the state machine)  *)
(*   GlobPlayerState::tick  src/src/game/stateful.rs  (the packet loop)    *)
(*   GameSessionPlayer::tick src/src/game/session.rs  (the tick driver)    *)
(*                                                                         *)
(* Three specifications share the variables:                               *)
(*   Spec       one session: the tick driver, the packet loop and the      *)
(*              state machine on top of the store, one packet per step;    *)
(*   StoreSpec  the public operations of BlockSystem called in any order;  *)
(*   AckSpec    ack / execute_ack of PlayerDestroyingState in any order.   *)
(***************************************************************************)
EXTENDS Integers, Sequences, FiniteSets, TLC

\* ------------------------------------------------------------------ bounds
\* Ticks a session is followed for.
MaxTick == 3
\* Inbound packets handled by one run of the packet loop.
MaxPackets == 3
\* Block types of the registry; the type of ordinal o has initial health o + 1.
NumBlocks == 2
\* Requests followed between two flushes in AckSpec.
MaxReqs == 4

\* ------------------------------------------------------------- option type
None == <<>>
Some(x) == <<x>>
IsSome(o) == o # <<>>
Unwrap(o) == o[1]

Max(a, b) == IF a >= b THEN a ELSE b

Range(s) == {s[i] : i \in DOMAIN s}

\* --------------------------------------------------------------- registry
\* AvailableBlockData: equality, hash and order are by block_ordinal alone; the
\* other fields are functions of the ordinal here, so record equality agrees.
AvailableBlockData(o) ==
    [block_ordinal |-> o, block_id |-> 100 + o, item_id |-> 200 + o,
     initial_health |-> o + 1]

Registry == {AvailableBlockData(o) : o \in 0 .. NumBlocks - 1}

\* PlayerBlockData.unlocked_blocks: nothing or the whole registry by ordinal.
AllUnlocked == [i \in 1 .. NumBlocks |-> AvailableBlockData(i - 1)]
UnlockedChoices == {<<>>, AllUnlocked}

\* ------------------------------------------------------------- coordinates
\* BlockPos as <<x, y, z>>. The anchor is the constant session.rs passes.
Anchor == <<8, 0, 24>>
SlotA == <<Anchor[1], Anchor[2] + 2, Anchor[3]>>
SlotB == <<Anchor[1] - 1, Anchor[2] + 2, Anchor[3]>>
\* A coordinate on the y = 0 plane outside the chunks the level holds.
Far == <<48, 0, 24>>
\* Coordinates a client may name: the two slots and two that are never placed.
Positions == {SlotA, SlotB, Anchor, Far}

Host == "host"
Guest == "guest"
Uuids == {Host, Guest}

\* Client sequence numbers: those of AckSpec, and those a session's packets carry.
Seqs == {3, 5, 7}
PacketSeqs == {3, 7}

\* The static level of game.rs: chunks -2..2 by -2..2, the y = 0 plane of each
\* is chiseled deepslate, the outer faces of the border chunks are walls for
\* y in 1..4, everything else is air. A chunk or block that is missing reads
\* as 0 (the two unwrap_or(0) of stop_destroying).
Deepslate == 900
ChunkOf(pos) == <<pos[1] \div 16, pos[3] \div 16>>
ChunkExists(pos) == ChunkOf(pos)[1] \in -2 .. 2 /\ ChunkOf(pos)[2] \in -2 .. 2
IsWall(pos) ==
    /\ pos[2] \in 1 .. 4
    /\ \/ ChunkOf(pos)[1] = -2 /\ pos[1] % 16 = 0
       \/ ChunkOf(pos)[1] = 2 /\ pos[1] % 16 = 15
       \/ ChunkOf(pos)[2] = -2 /\ pos[3] % 16 = 0
       \/ ChunkOf(pos)[2] = 2 /\ pos[3] % 16 = 15
level_block(pos) ==
    IF ~ChunkExists(pos) THEN 0
    ELSE IF pos[2] = 0 \/ IsWall(pos) THEN Deepslate
    ELSE 0

\* Voxel sequences the ray cast of a continuation can produce.
RayTraces == {<<>>, <<Anchor, SlotA>>, <<Anchor, SlotB>>}

\* ------------------------------------------------------------ BlockSystem
\* placed_blocks: HashMap<Uuid, HashMap<BlockPos, DamageableBlock>>, a function
\* whose domain is the players that have a partition.
DamageableBlock(b) == [block_data |-> b, health |-> b.initial_health]

Tracked(pb, u, pos) == u \in DOMAIN pb /\ pos \in DOMAIN pb[u]

current_state(pb, u, pos) ==
    IF Tracked(pb, u, pos) THEN Some(pb[u][pos].block_data) ELSE None

check_destroy(pb, u, pos) ==
    IF u \in DOMAIN pb
    THEN IF pos \in DOMAIN pb[u] THEN pb[u][pos].health = 0 ELSE FALSE
    ELSE FALSE

\* entry(uuid).or_default(): the partition is created on first use.
WithPartition(pb, u) ==
    IF u \in DOMAIN pb THEN pb
    ELSE [v \in (DOMAIN pb) \cup {u} |-> IF v = u THEN <<>> ELSE pb[v]]

\* Every mutating operation yields [store, ret].
WithoutPos(part, pos) == [p \in (DOMAIN part) \ {pos} |-> part[p]]

\* Faulty variant: hands the descriptor out and keeps the voxel.
remove_peek(pb, u, pos) ==
    IF Tracked(pb, u, pos)
    THEN [store |-> pb, ret |-> Some(pb[u][pos].block_data)]
    ELSE [store |-> pb, ret |-> None]

\* Faulty variant: a player without a partition gets an empty one.
remove_or_default(pb, u, pos) ==
    IF Tracked(pb, u, pos)
    THEN [store |-> [pb EXCEPT ![u] = WithoutPos(pb[u], pos)],
          ret |-> Some(pb[u][pos].block_data)]
    ELSE [store |-> WithPartition(pb, u), ret |-> None]

remove(pb, u, pos) ==
    IF Tracked(pb, u, pos)
    THEN [store |-> [pb EXCEPT ![u] = WithoutPos(pb[u], pos)],
          ret |-> Some(pb[u][pos].block_data)]
    ELSE [store |-> pb, ret |-> None]

\* Faulty variant: finds the voxel and leaves its health as it is.
reset_progress_keep(pb, u, pos) ==
    IF Tracked(pb, u, pos) THEN [store |-> pb, ret |-> Some(TRUE)]
    ELSE [store |-> pb, ret |-> None]

\* Faulty variant: restores every voxel of the partition.
reset_progress_all(pb, u, pos) ==
    IF Tracked(pb, u, pos)
    THEN [store |-> [pb EXCEPT ![u] =
                        [p \in DOMAIN pb[u] |->
                            [pb[u][p] EXCEPT !.health = pb[u][p].block_data.initial_health]]],
          ret |-> Some(TRUE)]
    ELSE [store |-> pb, ret |-> None]

\* Faulty variant: the coordinate is restored in every player's partition.
reset_progress_shared(pb, u, pos) ==
    IF Tracked(pb, u, pos)
    THEN [store |-> [v \in DOMAIN pb |->
                        IF pos \in DOMAIN pb[v]
                        THEN [pb[v] EXCEPT ![pos].health =
                                 pb[v][pos].block_data.initial_health]
                        ELSE pb[v]],
          ret |-> Some(TRUE)]
    ELSE [store |-> pb, ret |-> None]

reset_progress(pb, u, pos) ==
    IF Tracked(pb, u, pos)
    THEN [store |-> [pb EXCEPT ![u][pos].health =
                        pb[u][pos].block_data.initial_health],
          ret |-> Some(TRUE)]
    ELSE [store |-> pb, ret |-> None]

\* Faulty variant: takes two points of health per call.
attempt_damage_block_double(pb, u, pos) ==
    IF ~Tracked(pb, u, pos) THEN [store |-> pb, ret |-> None]
    ELSE IF pb[u][pos].health = 0 THEN [store |-> pb, ret |-> Some(<<0, 0>>)]
    ELSE LET h == Max(pb[u][pos].health - 2, 0)
         IN  [store |-> [pb EXCEPT ![u][pos].health = h],
              ret |-> IF h = 0 THEN Some(<<0, 0>>)
                      ELSE Some(<<h, pb[u][pos].block_data.initial_health>>)]

\* Faulty variant: drops the voxel when its health reaches 0.
attempt_damage_block_autoremove(pb, u, pos) ==
    IF ~Tracked(pb, u, pos) THEN [store |-> pb, ret |-> None]
    ELSE IF pb[u][pos].health <= 1
    THEN [store |-> [pb EXCEPT ![u] = WithoutPos(pb[u], pos)], ret |-> Some(<<0, 0>>)]
    ELSE [store |-> [pb EXCEPT ![u][pos].health = @ - 1],
          ret |-> Some(<<pb[u][pos].health - 1, pb[u][pos].block_data.initial_health>>)]

\* Faulty variant: health is taken away without looking whether any is left.
attempt_damage_block_nofloor(pb, u, pos) ==
    IF ~Tracked(pb, u, pos) THEN [store |-> pb, ret |-> None]
    ELSE LET h == pb[u][pos].health - 1
         IN  [store |-> [pb EXCEPT ![u][pos].health = h],
              ret |-> IF h = 0 THEN Some(<<0, 0>>)
                      ELSE Some(<<h, pb[u][pos].block_data.initial_health>>)]

attempt_damage_block(pb, u, pos) ==
    IF ~Tracked(pb, u, pos) THEN [store |-> pb, ret |-> None]
    ELSE IF pb[u][pos].health = 0 THEN [store |-> pb, ret |-> Some(<<0, 0>>)]
    ELSE LET h == pb[u][pos].health - 1
         IN  [store |-> [pb EXCEPT ![u][pos].health = h],
              ret |-> IF h = 0 THEN Some(<<0, 0>>)
                      ELSE Some(<<h, pb[u][pos].block_data.initial_health>>)]

\* Outbound packets.
AckPacket(seq) == [type |-> "BlockChangedAck", sequence_id |-> seq]
BlockUpdate(pos, state) == [type |-> "BlockUpdate", pos |-> pos, state |-> state]
BlockDestruction(pos) == [type |-> "BlockDestruction", pos |-> pos, progress |-> 255]
ChatBroken == [type |-> "SystemChat", text |-> "Block Broken!", a |-> 0, b |-> 0]
ChatProgress(r, i) == [type |-> "SystemChat", text |-> "Break Progress: ", a |-> r, b |-> i]
BlockBroken(pos, data) == [pos |-> pos, block |-> data]

\* tick_for: the partition is created on first use; the placement check runs on
\* every 20th tick or while an ack is pending. picks[i] is the index choose()
\* draws for the i-th slot (ignored when the slot is tracked or nothing is
\* unlocked).
Cadence == 20
\* Faulty variant: the first slot lies at the anchor itself.
Placements_ground(offset) ==
    << <<offset[1], offset[2], offset[3]>>,
       <<offset[1] - 1, offset[2] + 2, offset[3]>> >>

Placements(offset) ==
    << <<offset[1], offset[2] + 2, offset[3]>>,
       <<offset[1] - 1, offset[2] + 2, offset[3]>> >>

\* Faulty variant: a slot is filled whether or not it is tracked.
PlaceInto_overwrite(part, pos, unlocked, pick) ==
    IF unlocked = <<>> THEN part
    ELSE [p \in (DOMAIN part) \cup {pos} |->
            IF p = pos THEN DamageableBlock(unlocked[pick]) ELSE part[p]]

PlaceInto(part, pos, unlocked, pick) ==
    IF pos \in DOMAIN part \/ unlocked = <<>> THEN part
    ELSE [p \in (DOMAIN part) \cup {pos} |->
            IF p = pos THEN DamageableBlock(unlocked[pick]) ELSE part[p]]

\* LevelMediator: the updates of one call are grouped by chunk section; a
\* group of one entry is written as BlockUpdate, a larger one as
\* SectionBlocksUpdate. validate_positions belongs to the library and is taken
\* to accept the slots, which lie in a chunk the session always renders.
validate_positions == TRUE

SectionOf(pos) == <<pos[1] \div 16, pos[2] \div 16, pos[3] \div 16>>

UpdateInfo(e) == [block_pos |-> e.pos, block_id |-> e.state]

SectionBlocksUpdate(section, update_info) ==
    [type |-> "SectionBlocksUpdate", section |-> section,
     update_info |-> update_info]

\* Faulty variant: a lone placement is written as a section update too.
PlacementPackets_batch(updates) ==
    IF updates = <<>> THEN <<>>
    ELSE <<SectionBlocksUpdate(SectionOf(updates[1].pos),
                               {UpdateInfo(updates[i]) : i \in DOMAIN updates})>>

\* Faulty variant: every placement is written as a packet of its own.
PlacementPackets_each(updates) ==
    [i \in DOMAIN updates |-> BlockUpdate(updates[i].pos, updates[i].state)]

PlacementPackets(updates) ==
    IF ~validate_positions \/ updates = <<>> THEN <<>>
    ELSE IF Len(updates) = 1
    THEN <<BlockUpdate(updates[1].pos, updates[1].state)>>
    ELSE IF SectionOf(updates[1].pos) = SectionOf(updates[2].pos)
    THEN <<SectionBlocksUpdate(SectionOf(updates[1].pos),
                               {UpdateInfo(updates[1]), UpdateInfo(updates[2])})>>
    ELSE <<BlockUpdate(updates[1].pos, updates[1].state),
           BlockUpdate(updates[2].pos, updates[2].state)>>

\* Faulty variant: the cadence is one tick longer.
PlacementCheck_late(tick, pending) ==
    tick % (Cadence + 1) = 0 \/ IsSome(pending)

PlacementCheck(tick, pending) == tick % Cadence = 0 \/ IsSome(pending)

tick_for(pb, u, offset, tick, pending, unlocked, picks) ==
    LET pb1 == WithPartition(pb, u)
        pl == Placements(offset)
        p1 == PlaceInto(pb1[u], pl[1], unlocked, picks[1])
        p2 == PlaceInto(p1, pl[2], unlocked, picks[2])
        placed == <<p1 # pb1[u], p2 # p1>>
        updates == SelectSeq(
            << [pos |-> pl[1], state |-> IF placed[1] THEN p1[pl[1]].block_data.block_id ELSE 0,
                on |-> placed[1]],
               [pos |-> pl[2], state |-> IF placed[2] THEN p2[pl[2]].block_data.block_id ELSE 0,
                on |-> placed[2]] >>,
            LAMBDA e : e.on)
    IN  IF PlacementCheck(tick, pending)
        THEN [store |-> [pb1 EXCEPT ![u] = p2], updates |-> updates,
              packets |-> PlacementPackets(updates)]
        ELSE [store |-> pb1, updates |-> <<>>, packets |-> <<>>]

Picks(unlocked) ==
    IF unlocked = <<>> THEN {<<1, 1>>}
    ELSE {<<a, b>> : a \in DOMAIN unlocked, b \in DOMAIN unlocked}

\* ---------------------------------------------------- PlayerDestroyingState
Idle == [tag |-> "None"]
Started(pos) == [tag |-> "Started", pos |-> pos]
Aborted(pos) == [tag |-> "Aborted", pos |-> pos]

\* Faulty variant: the newest request overwrites the pending one.
ack_replace(pending, seq) == Some(seq)

ack(pending, seq) ==
    IF pending = None THEN Some(seq) ELSE Some(Max(Unwrap(pending), seq))

\* execute_ack: take() the pending sequence and write it, if there is one.
execute_ack(pending) ==
    [pending |-> None,
     sent |-> IF IsSome(pending)
              THEN <<[type |-> "BlockChangedAck", sequence_id |-> Unwrap(pending)]>>
              ELSE <<>>]

\* system.current_state(..).map(|x| x.block_id).unwrap_or(0)
TrackedStateOr(pb, u, pos, default) ==
    IF IsSome(current_state(pb, u, pos))
    THEN Unwrap(current_state(pb, u, pos)).block_id
    ELSE default

\* Faulty variant: the broken voxel is reported and left in the store.
DamageStep_keep(ds, pb, u, sent) ==
    LET dmg == attempt_damage_block(pb, u, ds.pos)
        progress == Unwrap(dmg.ret)
    IN  IF dmg.ret = None
        THEN [ds |-> ds, guard |-> TRUE, store |-> dmg.store, event |-> None,
              sent |-> sent]
        ELSE IF progress[1] = progress[2]
        THEN [ds |-> ds, guard |-> TRUE, store |-> dmg.store,
              event |-> Some(BlockBroken(ds.pos, dmg.store[u][ds.pos].block_data)),
              sent |-> sent \o <<BlockUpdate(ds.pos, 0), ChatBroken>>]
        ELSE [ds |-> ds, guard |-> TRUE, store |-> dmg.store, event |-> None,
              sent |-> sent \o <<ChatProgress(progress[1], progress[2])>>]

\* Faulty variant: a target the store does not know ends the destruction.
DamageStep_giveup(ds, pb, u, sent) ==
    LET dmg == attempt_damage_block(pb, u, ds.pos)
        progress == Unwrap(dmg.ret)
        rem == remove(dmg.store, u, ds.pos)
    IN  IF dmg.ret = None
        THEN [ds |-> Idle, guard |-> TRUE, store |-> dmg.store, event |-> None,
              sent |-> sent]
        ELSE IF progress[1] = progress[2]
        THEN IF rem.ret = None
             THEN [ds |-> ds, guard |-> TRUE, store |-> rem.store, event |-> None,
                   sent |-> sent]
             ELSE [ds |-> ds, guard |-> TRUE, store |-> rem.store,
                   event |-> Some(BlockBroken(ds.pos, Unwrap(rem.ret))),
                   sent |-> sent \o <<BlockUpdate(ds.pos, 0), ChatBroken>>]
        ELSE [ds |-> ds, guard |-> TRUE, store |-> dmg.store, event |-> None,
              sent |-> sent \o <<ChatProgress(progress[1], progress[2])>>]

\* Faulty variant: the air update for the broken voxel is not written.
DamageStep_silent(ds, pb, u, sent) ==
    LET dmg == attempt_damage_block(pb, u, ds.pos)
        progress == Unwrap(dmg.ret)
        rem == remove(dmg.store, u, ds.pos)
    IN  IF dmg.ret = None
        THEN [ds |-> ds, guard |-> TRUE, store |-> dmg.store, event |-> None,
              sent |-> sent]
        ELSE IF progress[1] = progress[2]
        THEN IF rem.ret = None
             THEN [ds |-> ds, guard |-> TRUE, store |-> rem.store, event |-> None,
                   sent |-> sent]
             ELSE [ds |-> ds, guard |-> TRUE, store |-> rem.store,
                   event |-> Some(BlockBroken(ds.pos, Unwrap(rem.ret))),
                   sent |-> sent \o <<ChatBroken>>]
        ELSE [ds |-> ds, guard |-> TRUE, store |-> dmg.store, event |-> None,
              sent |-> sent \o <<ChatProgress(progress[1], progress[2])>>]

\* The Started branch of continue_destroying: damage, and removal at 0.
DamageStep(ds, pb, u, sent) ==
    LET dmg == attempt_damage_block(pb, u, ds.pos)
        progress == Unwrap(dmg.ret)
        rem == remove(dmg.store, u, ds.pos)
    IN  IF dmg.ret = None
        THEN [ds |-> ds, guard |-> TRUE, store |-> dmg.store, event |-> None,
              sent |-> sent]
        ELSE IF progress[1] = progress[2]
        THEN IF rem.ret = None
             THEN [ds |-> ds, guard |-> TRUE, store |-> rem.store, event |-> None,
                   sent |-> sent]
             ELSE [ds |-> ds, guard |-> TRUE, store |-> rem.store,
                   event |-> Some(BlockBroken(ds.pos, Unwrap(rem.ret))),
                   sent |-> sent \o <<BlockUpdate(ds.pos, 0), ChatBroken>>]
        ELSE [ds |-> ds, guard |-> TRUE, store |-> dmg.store, event |-> None,
              sent |-> sent \o <<ChatProgress(progress[1], progress[2])>>]

NoEffect(ds, guard, pb) ==
    [ds |-> ds, guard |-> guard, store |-> pb, event |-> None, sent |-> <<>>]

\* Faulty variant: lock_block_progress is not honoured, the restored voxel is
\* damaged in the same call.
ContinueByPhase_nolock(ds, pb, u, ray) ==
    IF ds.tag = "None" THEN NoEffect(ds, TRUE, pb)
    ELSE IF ds.tag = "Started" THEN DamageStep(ds, pb, u, <<>>)
    ELSE IF ds.pos \in Range(ray)
    THEN LET reset == reset_progress(pb, u, ds.pos).store
         IN  DamageStep(Started(ds.pos), reset, u,
                        <<BlockUpdate(ds.pos, TrackedStateOr(reset, u, ds.pos, 0))>>)
    ELSE NoEffect(Idle, TRUE, pb)

\* Faulty variant: a ray cast that misses the target leaves the phase Aborted.
ContinueByPhase_stay(ds, pb, u, ray) ==
    IF ds.tag = "None" THEN NoEffect(ds, TRUE, pb)
    ELSE IF ds.tag = "Started" THEN DamageStep(ds, pb, u, <<>>)
    ELSE IF ds.pos \in Range(ray)
    THEN LET reset == reset_progress(pb, u, ds.pos).store
         IN  [ds |-> Started(ds.pos), guard |-> TRUE, store |-> reset,
              event |-> None,
              sent |-> <<BlockUpdate(ds.pos, TrackedStateOr(reset, u, ds.pos, 0))>>]
    ELSE NoEffect(ds, TRUE, pb)

\* continue_destroying once the guard is set: the phase decides.
ContinueByPhase(ds, pb, u, ray) ==
    IF ds.tag = "None" THEN NoEffect(ds, TRUE, pb)
    ELSE IF ds.tag = "Started" THEN DamageStep(ds, pb, u, <<>>)
    ELSE IF ds.pos \in Range(ray)
    THEN LET reset == reset_progress(pb, u, ds.pos).store
         IN  [ds |-> Started(ds.pos), guard |-> TRUE, store |-> reset,
              event |-> None,
              sent |-> <<BlockUpdate(ds.pos, TrackedStateOr(reset, u, ds.pos, 0))>>]
    ELSE NoEffect(Idle, TRUE, pb)

\* Faulty variant: damage_this_tick is not consulted.
continue_destroying_unguarded(ds, guard, pb, u, ray) ==
    ContinueByPhase(ds, pb, u, ray)

continue_destroying(ds, guard, pb, u, ray) ==
    IF guard THEN NoEffect(ds, guard, pb) ELSE ContinueByPhase(ds, pb, u, ray)

\* Faulty variant: restarting on the same coordinate sends no progress reset.
start_destroying_moved(ds, at) ==
    [ds |-> Started(at),
     sent |-> IF ds.tag = "Started" /\ ds.pos # at
              THEN <<BlockDestruction(ds.pos)>> ELSE <<>>]

start_destroying(ds, at) ==
    [ds |-> Started(at),
     sent |-> IF ds.tag = "Started" THEN <<BlockDestruction(ds.pos)>> ELSE <<>>]

\* Faulty variant: an untracked coordinate is answered with air, the level is
\* not consulted.
stop_destroying_air(ds, pending, pb, u) ==
    IF ds.tag = "None" THEN [pending |-> pending, sent |-> <<>>]
    ELSE LET flush == execute_ack(pending)
         IN  [pending |-> flush.pending,
              sent |-> <<BlockUpdate(ds.pos, TrackedStateOr(pb, u, ds.pos, 0))>>
                       \o flush.sent]

\* Faulty variant: the flush is not confined to the Started/Aborted arm.
stop_destroying_always(ds, pending, pb, u) ==
    LET flush == execute_ack(pending)
    IN  [pending |-> flush.pending,
         sent |-> (IF ds.tag = "None" THEN <<>>
                   ELSE <<BlockUpdate(ds.pos,
                             TrackedStateOr(pb, u, ds.pos, level_block(ds.pos)))>>)
                  \o flush.sent]

stop_destroying(ds, pending, pb, u) ==
    IF ds.tag = "None" THEN [pending |-> pending, sent |-> <<>>]
    ELSE LET flush == execute_ack(pending)
         IN  [pending |-> flush.pending,
              sent |-> <<BlockUpdate(ds.pos,
                            TrackedStateOr(pb, u, ds.pos, level_block(ds.pos)))>>
                       \o flush.sent]

\* Faulty variant: in phase None the player's voxels are restored all the same.
abort_destroying_idle_reset(ds, pb, u) ==
    IF ds.tag = "None"
    THEN [ds |-> ds,
          store |-> IF u \in DOMAIN pb
                    THEN [pb EXCEPT ![u] =
                            [p \in DOMAIN pb[u] |->
                                [pb[u][p] EXCEPT
                                    !.health = pb[u][p].block_data.initial_health]]]
                    ELSE pb,
          sent |-> <<>>]
    ELSE LET reset == reset_progress(pb, u, ds.pos)
         IN  [ds |-> Aborted(ds.pos), store |-> reset.store,
              sent |-> IF IsSome(reset.ret)
                       THEN <<BlockDestruction(ds.pos),
                              BlockUpdate(ds.pos,
                                  TrackedStateOr(reset.store, u, ds.pos, 0))>>
                       ELSE <<>>]

\* Faulty variant: the two packets do not depend on what reset_progress found.
abort_destroying_unconditional(ds, pb, u) ==
    IF ds.tag = "None" THEN [ds |-> ds, store |-> pb, sent |-> <<>>]
    ELSE LET reset == reset_progress(pb, u, ds.pos)
         IN  [ds |-> Aborted(ds.pos), store |-> reset.store,
              sent |-> <<BlockDestruction(ds.pos),
                         BlockUpdate(ds.pos,
                             TrackedStateOr(reset.store, u, ds.pos, 0))>>]

abort_destroying(ds, pb, u) ==
    IF ds.tag = "None" THEN [ds |-> ds, store |-> pb, sent |-> <<>>]
    ELSE LET reset == reset_progress(pb, u, ds.pos)
         IN  [ds |-> Aborted(ds.pos), store |-> reset.store,
              sent |-> IF IsSome(reset.ret)
                       THEN <<BlockDestruction(ds.pos),
                              BlockUpdate(ds.pos,
                                  TrackedStateOr(reset.store, u, ds.pos, 0))>>
                       ELSE <<>>]

\* default_rng(): StdRng::from_seed([0; 32]), the same stream in every store.
default_rng == 0

\* ------------------------------------------------------------------ state
VARIABLES
    placed_blocks,              \* BlockSystem.placed_blocks
    unlocked_blocks,            \* GameSessionPlayer.block_data.unlocked_blocks
    current_tick,               \* GameSessionPlayer.current_tick
    destroying_state,           \* PlayerDestroyingState.destroying_state
    destroying_block_sequence,  \* PlayerDestroyingState.destroying_block_sequence
    damage_this_tick,           \* PlayerDestroyingState.damage_this_tick
    current_slot,               \* player_inventory().current_slot
    stateful_events,            \* the events GlobPlayerState::tick has collected
    pc,                         \* "idle" between ticks, "packets" inside the loop
    packets_handled,            \* packets the running loop has taken
    hits_this_tick,             \* health decrements since the tick began
    acks_this_tick,             \* BlockChangedAck packets since the tick began
    stops_this_tick,            \* StopDestroy inputs that flushed since the tick began
    unacked,                    \* sequence numbers requested and not yet acknowledged
    requests,                   \* AckSpec: the requests since the last flush
    damage_calls,               \* StoreSpec: damage calls per voxel since placed or reset
    damage_ticks,               \* Spec: per coordinate, the ticks that have damaged the voxel
    rand_state,                 \* BlockSystem.rand_state: words drawn, modulo the period
    rng_stream,                 \* DetSpec: the words the seeded generator yields
    twin,                       \* DetSpec: a second BlockSystem given the same calls
    caster,                     \* RaySpec: the RayTraceIterator and what it has yielded
    last                        \* the operation of the last step and what it returned

vars ==
    <<placed_blocks, unlocked_blocks, current_tick, destroying_state,
      destroying_block_sequence, damage_this_tick, current_slot, stateful_events,
      pc, packets_handled, hits_this_tick, acks_this_tick, stops_this_tick,
      unacked, requests, damage_calls, damage_ticks, rand_state, rng_stream,
      twin, caster, last>>

\* What the session and the store operations never touch.
rng_rest == <<rand_state, rng_stream, twin, caster>>
model_rest == <<damage_ticks, rng_rest>>

\* The fields of the session and the counters kept beside them.
session_vars_less ==
    <<current_tick, destroying_state, destroying_block_sequence, damage_this_tick,
      current_slot, stateful_events, pc, packets_handled, hits_this_tick,
      acks_this_tick, stops_this_tick, unacked, requests>>

session_vars ==
    <<current_tick, destroying_state, destroying_block_sequence, damage_this_tick,
      current_slot, stateful_events, pc, packets_handled, hits_this_tick,
      acks_this_tick, stops_this_tick, unacked, requests, damage_calls,
      model_rest>>

\* damage_ticks[p].count is the number of distinct ticks, since the voxel at p
\* was placed or last restored, in which its health has gone down; .hit tells
\* whether the running tick is one of them.
NoTicks == [count |-> 0, hit |-> FALSE]

\* The counters after a step from store pb to pb2 that has restored the
\* coordinates in restored.
TicksAfter(ticks, pb, pb2, restored) ==
    [p \in Positions |->
        IF ~Tracked(pb2, Host, p) \/ ~Tracked(pb, Host, p) \/ p \in restored
        THEN NoTicks
        ELSE IF pb2[Host][p].health < pb[Host][p].health /\ ~ticks[p].hit
        THEN [count |-> ticks[p].count + 1, hit |-> TRUE]
        ELSE ticks[p]]

\* The ticks that have damaged the voxel at p once the step from pb to pb2 is
\* counted in.
TicksWith(ticks, pb, pb2, p) ==
    IF Tracked(pb, Host, p) /\ ~ticks[p].hit
       /\ pb[Host][p].health > 0
       /\ (~Tracked(pb2, Host, p) \/ pb2[Host][p].health < pb[Host][p].health)
    THEN ticks[p].count + 1
    ELSE ticks[p].count

\* GameSession::new: BlockSystem::default(), GlobPlayerState::default(),
\* current_tick 0; the unlocked blocks come from the database or the defaults.
Init ==
    /\ placed_blocks = <<>>
    /\ unlocked_blocks \in UnlockedChoices
    /\ current_tick = 0
    /\ destroying_state = Idle
    /\ destroying_block_sequence = None
    /\ damage_this_tick = FALSE
    /\ current_slot = 0
    /\ stateful_events = <<>>
    /\ pc = "idle"
    /\ packets_handled = 0
    /\ hits_this_tick = 0
    /\ acks_this_tick = 0
    /\ stops_this_tick = 0
    /\ unacked = {}
    /\ requests = <<>>
    /\ damage_calls = [k \in Uuids \X Positions |-> 0]
    /\ damage_ticks = [p \in Positions |-> NoTicks]
    /\ rand_state = default_rng
    /\ rng_stream = <<>>
    /\ twin = <<>>
    /\ caster = <<>>
    /\ last = [op |-> "init"]

\* Voxels of player u whose health went down, or that are gone, from pb to pb2.
Decrements(pb, pb2, u) ==
    IF u \notin DOMAIN pb THEN 0
    ELSE Cardinality({p \in DOMAIN pb[u] :
            \/ ~Tracked(pb2, u, p)
            \/ pb2[u][p].health < pb[u][p].health})

HealthOf(pb, u, pos) == IF Tracked(pb, u, pos) THEN Some(pb[u][pos].health) ELSE None

AckCount(sent) == Len(SelectSeq(sent, LAMBDA p : p.type = "BlockChangedAck"))

\* What an emitted ack acknowledges: every request it covers.
Acknowledge(open, sent) ==
    {s \in open : \A i \in DOMAIN sent :
        sent[i].type = "BlockChangedAck" => sent[i].sequence_id < s}

\* ------------------------------------------------- GameSessionPlayer::tick
\* Tick 0 of a player whose level is not rendered yet returns at once.
TickNotLoaded ==
    /\ pc = "idle"
    /\ current_tick = 0
    /\ last' = [op |-> "not_loaded"]
    /\ UNCHANGED <<placed_blocks, unlocked_blocks, session_vars>>

\* The part of the tick before the packet loop: the counter, tick_for, then
\* GlobPlayerState::tick up to its loop (execute_ack).
BeginTick ==
    /\ pc = "idle"
    /\ current_tick < MaxTick
    /\ \E picks \in Picks(unlocked_blocks) :
        LET tick == current_tick + 1
            flush == execute_ack(destroying_block_sequence)
        IN  \E placed \in {tick_for(placed_blocks, Host, Anchor, tick,
                                     destroying_block_sequence, unlocked_blocks,
                                     picks)} :
            /\ current_tick' = tick
            /\ placed_blocks' = placed.store
            /\ destroying_block_sequence' = flush.pending
            /\ acks_this_tick' = AckCount(flush.sent)
            /\ unacked' = Acknowledge(unacked, flush.sent)
            /\ damage_ticks' =
                   [p \in Positions |->
                       [TicksAfter(damage_ticks, placed_blocks, placed.store, {})[p]
                           EXCEPT !.hit = FALSE]]
            /\ last' = [op |-> "begin_tick", updates |-> placed.updates,
                        packets |-> placed.packets, sent |-> flush.sent]
    /\ stateful_events' = <<>>
    /\ pc' = "packets"
    /\ packets_handled' = 0
    /\ hits_this_tick' = 0
    /\ stops_this_tick' = 0
    /\ UNCHANGED <<unlocked_blocks, destroying_state, damage_this_tick,
                   current_slot, requests, damage_calls, rng_rest>>

\* ---------------------------------------------------- GlobPlayerState::tick
\* A packet is taken from the queue while the player is loaded.
TakePacket ==
    /\ pc = "packets"
    /\ packets_handled < MaxPackets
    /\ packets_handled' = packets_handled + 1

\* A packet arrives while the player is not loaded: return vec![]. is_loaded()
\* belongs to the connection library and is read once per packet, so it is an
\* input of every iteration of the loop.
NotLoadedReturn ==
    /\ pc = "packets"
    /\ packets_handled < MaxPackets
    /\ pc' = "idle"
    /\ stateful_events' = <<>>
    /\ last' = [op |-> "return_not_loaded", events |-> <<>>]
    /\ UNCHANGED <<placed_blocks, unlocked_blocks, current_tick, destroying_state,
                   destroying_block_sequence, damage_this_tick, current_slot,
                   packets_handled, hits_this_tick, acks_this_tick,
                   stops_this_tick, unacked, requests,
                   damage_calls, model_rest>>

Hands == {"MainHand", "OffHand"}

\* Faulty variant: the selected hotbar slot is not looked at.
RunsContinuation_anyslot(hand, slot) == hand = "MainHand"

\* The Swing arm reaches continue_destroying with the main hand on slot 0.
RunsContinuation(hand, slot) == hand = "MainHand" /\ slot = 0

\* Swing: the continuation, with the main hand on slot 0 only. (On slot 8 it
\* opens the statistics menu; current_menu and current_keepalive_seq, and the
\* packets that touch only them, are left out: nothing here reads them.)
\* last.ray is the ray cast when the continuation made one (phase Aborted).
Swing ==
    /\ TakePacket
    /\ \E hand \in Hands, ray \in RayTraces :
        LET go == RunsContinuation(hand, current_slot)
        IN  \E r \in {IF go
                      THEN continue_destroying(destroying_state, damage_this_tick,
                                               placed_blocks, Host, ray)
                      ELSE NoEffect(destroying_state, damage_this_tick,
                                    placed_blocks)} :
            /\ destroying_state' = r.ds
            /\ damage_this_tick' = r.guard
            /\ placed_blocks' = r.store
            /\ stateful_events' = stateful_events \o r.event
            /\ hits_this_tick' =
                   hits_this_tick + Decrements(placed_blocks, r.store, Host)
            /\ damage_ticks' =
                   TicksAfter(damage_ticks, placed_blocks, r.store,
                              IF go /\ ~damage_this_tick
                                    /\ destroying_state.tag = "Aborted"
                                    /\ r.ds.tag = "Started"
                              THEN {destroying_state.pos} ELSE {})
            /\ last' = [op |-> "swing", ran |-> go, hand |-> hand,
                        ticks |-> IF destroying_state.tag = "None" THEN 0
                                  ELSE TicksWith(damage_ticks, placed_blocks,
                                                 r.store, destroying_state.pos),
                        before |-> destroying_state,
                        guard |-> damage_this_tick, sent |-> r.sent,
                        event |-> r.event,
                        pre |-> IF destroying_state.tag = "None" THEN None
                                ELSE HealthOf(placed_blocks, Host,
                                              destroying_state.pos),
                        data |-> IF destroying_state.tag = "None" THEN None
                                 ELSE current_state(placed_blocks, Host,
                                                    destroying_state.pos),
                        ray |-> IF go /\ ~damage_this_tick
                                      /\ destroying_state.tag = "Aborted"
                                THEN ray ELSE <<>>]
    /\ UNCHANGED <<unlocked_blocks, current_tick, destroying_block_sequence,
                   current_slot, pc, acks_this_tick, stops_this_tick, unacked,
                   requests,
                   damage_calls, rng_rest>>

\* Faulty variant: switching targets restores the voxel that was being mined.
StartDestroyBlock_restoring ==
    /\ TakePacket
    /\ \E at_pos \in Positions, sequence \in PacketSeqs :
        LET r == start_destroying(destroying_state, at_pos)
            reset == IF destroying_state.tag = "None" THEN placed_blocks
                     ELSE reset_progress(placed_blocks, Host,
                                         destroying_state.pos).store
        IN  /\ destroying_state' = r.ds
            /\ placed_blocks' = reset
            /\ destroying_block_sequence' = ack(destroying_block_sequence, sequence)
            /\ unacked' = unacked \cup {sequence}
            /\ last' = [op |-> "start", at_pos |-> at_pos, sequence |-> sequence,
                        before |-> destroying_state, sent |-> r.sent]
    /\ UNCHANGED <<unlocked_blocks, current_tick, damage_this_tick,
                   current_slot, stateful_events, pc, hits_this_tick,
                   acks_this_tick, stops_this_tick, requests,
                   damage_calls, model_rest>>

\* StartDestroyBlock: start_destroying, then ack(sequence). The store is not
\* among start_destroying's arguments.
StartDestroyBlock ==
    /\ TakePacket
    /\ \E at_pos \in Positions, sequence \in PacketSeqs :
        LET r == start_destroying(destroying_state, at_pos)
        IN  /\ destroying_state' = r.ds
            /\ destroying_block_sequence' = ack(destroying_block_sequence, sequence)
            /\ unacked' = unacked \cup {sequence}
            /\ last' = [op |-> "start", at_pos |-> at_pos, sequence |-> sequence,
                        before |-> destroying_state, sent |-> r.sent]
    /\ UNCHANGED <<placed_blocks, unlocked_blocks, current_tick, damage_this_tick,
                   current_slot, stateful_events, pc, hits_this_tick,
                   acks_this_tick, stops_this_tick, requests,
                   damage_calls, model_rest>>

AbortDestroyBlock ==
    /\ TakePacket
    /\ \E sequence \in PacketSeqs :
        \E r \in {abort_destroying(destroying_state, placed_blocks, Host)} :
            /\ destroying_state' = r.ds
            /\ placed_blocks' = r.store
            /\ hits_this_tick' =
                   hits_this_tick + Decrements(placed_blocks, r.store, Host)
            /\ destroying_block_sequence' = ack(destroying_block_sequence, sequence)
            /\ unacked' = unacked \cup {sequence}
            /\ damage_ticks' =
                   TicksAfter(damage_ticks, placed_blocks, r.store,
                              IF destroying_state.tag = "None" THEN {}
                              ELSE {destroying_state.pos})
            /\ last' = [op |-> "abort", sequence |-> sequence,
                        before |-> destroying_state, sent |-> r.sent,
                        pre |-> IF destroying_state.tag = "None" THEN None
                                ELSE HealthOf(placed_blocks, Host,
                                              destroying_state.pos)]
    /\ UNCHANGED <<unlocked_blocks, current_tick, damage_this_tick, current_slot,
                   stateful_events, pc, acks_this_tick, stops_this_tick, requests,
                   damage_calls, rng_rest>>

StopDestroyBlock ==
    /\ TakePacket
    /\ \E sequence \in PacketSeqs :
        LET r == stop_destroying(destroying_state,
                                 ack(destroying_block_sequence, sequence),
                                 placed_blocks, Host)
        IN  /\ destroying_block_sequence' = r.pending
            /\ acks_this_tick' = acks_this_tick + AckCount(r.sent)
            /\ stops_this_tick' =
                   stops_this_tick + (IF destroying_state.tag = "None" THEN 0 ELSE 1)
            /\ unacked' = Acknowledge(unacked \cup {sequence}, r.sent)
            /\ last' = [op |-> "stop", sequence |-> sequence,
                        before |-> destroying_state, sent |-> r.sent]
    /\ UNCHANGED <<placed_blocks, unlocked_blocks, current_tick, destroying_state,
                   damage_this_tick, current_slot, stateful_events, pc,
                   hits_this_tick, requests,
                   damage_calls, model_rest>>

\* SetCarriedItem: slots above 8 are clamped to 8.
CarriedSlots == {0, 8, 9}

SetCarriedItem ==
    /\ TakePacket
    /\ \E slot \in CarriedSlots :
        /\ current_slot' = (IF slot > 8 THEN 8 ELSE slot)
        /\ last' = [op |-> "set_carried_item", slot |-> slot]
    /\ UNCHANGED <<placed_blocks, unlocked_blocks, current_tick, destroying_state,
                   destroying_block_sequence, damage_this_tick, stateful_events,
                   pc, hits_this_tick, acks_this_tick, stops_this_tick, unacked,
                   requests,
                   damage_calls, model_rest>>

\* The queue is empty: reset_tick, and the events go back to the session.
EndTick ==
    /\ pc = "packets"
    /\ damage_this_tick' = FALSE
    /\ pc' = "idle"
    /\ stateful_events' = <<>>
    /\ last' = [op |-> "end_tick", events |-> stateful_events,
                guard |-> damage_this_tick]
    /\ UNCHANGED <<placed_blocks, unlocked_blocks, current_tick, destroying_state,
                   destroying_block_sequence, current_slot, packets_handled,
                   hits_this_tick, acks_this_tick, stops_this_tick, unacked,
                   requests,
                   damage_calls, model_rest>>

\* GameSessionPlayer::tick, the loop over the events the state's tick has
\* returned: mined_blocks is resized to hold the ordinal and its count goes up
\* by one. mined[o + 1] is the count of ordinal o.
mined_after_event(mined, event) ==
    LET o == event.block.block_ordinal
    IN  [i \in 1..Max(Len(mined), o + 1) |->
            (IF i <= Len(mined) THEN mined[i] ELSE 0) + (IF i = o + 1 THEN 1 ELSE 0)]

RECURSIVE mined_after(_, _)
mined_after(mined, events) ==
    IF events = <<>> THEN mined
    ELSE mined_after(mined_after_event(mined, Head(events)), Tail(events))

Next ==
    \/ TickNotLoaded
    \/ BeginTick
    \/ NotLoadedReturn
    \/ Swing
    \/ StartDestroyBlock
    \/ AbortDestroyBlock
    \/ StopDestroyBlock
    \/ SetCarriedItem
    \/ EndTick

Spec == Init /\ [][Next]_vars

\* --------------------------------------------------------------- StoreSpec
\* The public operations of BlockSystem, called in any order on the default
\* store. last.store is the store the operation was called on.
ExtraCalls == 1
MaxCalls == NumBlocks + ExtraCalls

TickSamples == {1, Cadence}
PendingSamples == {None, Some(3)}

store_rest ==
    <<unlocked_blocks, current_tick, destroying_state, destroying_block_sequence,
      damage_this_tick, current_slot, stateful_events, pc, packets_handled,
      hits_this_tick, acks_this_tick, stops_this_tick, unacked, requests,
      model_rest>>

\* The calls counter of a voxel restarts when it is placed, reset or removed.
Recount(pb2, fresh) ==
    [k \in Uuids \X Positions |->
        IF ~Tracked(pb2, k[1], k[2]) \/ k \in fresh THEN 0 ELSE damage_calls[k]]

StoreTickFor ==
    /\ \E u \in Uuids, tick \in TickSamples, pending \in PendingSamples :
        \E unlocked \in (IF u = Host THEN UnlockedChoices ELSE {<<>>}) :
            \E picks \in Picks(unlocked) :
                LET r == tick_for(placed_blocks, u, Anchor, tick, pending,
                                  unlocked, picks)
                IN  /\ placed_blocks' = r.store
                    /\ damage_calls' =
                           Recount(r.store,
                                   {k \in Uuids \X Positions :
                                       ~Tracked(placed_blocks, k[1], k[2])})
                    /\ last' = [op |-> "tick_for", uuid |-> u, tick |-> tick,
                                pending |-> pending, unlocked |-> unlocked,
                                updates |-> r.updates, packets |-> r.packets,
                                store |-> placed_blocks]
    /\ UNCHANGED store_rest

StoreDamage ==
    /\ \E u \in Uuids, pos \in Positions :
        LET r == attempt_damage_block(placed_blocks, u, pos)
        IN  /\ damage_calls[<<u, pos>>] < MaxCalls
            /\ placed_blocks' = r.store
            /\ damage_calls' =
                   IF Tracked(placed_blocks, u, pos)
                   THEN [damage_calls EXCEPT ![<<u, pos>>] = @ + 1]
                   ELSE damage_calls
            /\ last' = [op |-> "attempt_damage_block", uuid |-> u, pos |-> pos,
                        ret |-> r.ret, store |-> placed_blocks,
                        calls |-> damage_calls[<<u, pos>>]]
    /\ UNCHANGED store_rest

StoreReset ==
    /\ \E u \in Uuids, pos \in Positions :
        LET r == reset_progress(placed_blocks, u, pos)
        IN  /\ placed_blocks' = r.store
            /\ damage_calls' = Recount(r.store, {<<u, pos>>})
            /\ last' = [op |-> "reset_progress", uuid |-> u, pos |-> pos,
                        ret |-> r.ret, store |-> placed_blocks,
                        calls |-> damage_calls[<<u, pos>>]]
    /\ UNCHANGED store_rest

StoreRemove ==
    /\ \E u \in Uuids, pos \in Positions :
        LET r == remove(placed_blocks, u, pos)
        IN  /\ placed_blocks' = r.store
            /\ damage_calls' = Recount(r.store, {})
            /\ last' = [op |-> "remove", uuid |-> u, pos |-> pos,
                        ret |-> r.ret, store |-> placed_blocks]
    /\ UNCHANGED store_rest

StoreQuery ==
    /\ \E u \in Uuids, pos \in Positions :
        last' = [op |-> "current_state", uuid |-> u, pos |-> pos,
                 ret |-> current_state(placed_blocks, u, pos),
                 store |-> placed_blocks]
    /\ UNCHANGED <<placed_blocks, damage_calls, store_rest>>

StoreCheckDestroy ==
    /\ \E u \in Uuids, pos \in Positions :
        last' = [op |-> "check_destroy", uuid |-> u, pos |-> pos,
                 ret |-> check_destroy(placed_blocks, u, pos),
                 store |-> placed_blocks]
    /\ UNCHANGED <<placed_blocks, damage_calls, store_rest>>

StoreNext ==
    \/ StoreTickFor
    \/ StoreDamage
    \/ StoreReset
    \/ StoreRemove
    \/ StoreQuery
    \/ StoreCheckDestroy

StoreSpec == Init /\ [][StoreNext]_vars

\* --------------------------------------------------------------- ShareSpec
\* One store used for two players who both have voxels: tick_for with the
\* first descriptor unlocked for either player, then the mutating operations
\* of StoreSpec.
FirstUnlocked == <<AvailableBlockData(0)>>

ShareTickFor ==
    /\ \E u \in Uuids, pending \in PendingSamples :
        LET r == tick_for(placed_blocks, u, Anchor, 1, pending,
                          FirstUnlocked, <<1, 1>>)
        IN  /\ placed_blocks' = r.store
            /\ damage_calls' =
                   Recount(r.store,
                           {k \in Uuids \X Positions :
                               ~Tracked(placed_blocks, k[1], k[2])})
            /\ last' = [op |-> "tick_for", uuid |-> u, tick |-> 1,
                        pending |-> pending, unlocked |-> FirstUnlocked,
                        updates |-> r.updates, packets |-> r.packets,
                        store |-> placed_blocks]
    /\ UNCHANGED store_rest

ShareNext ==
    \/ ShareTickFor
    \/ StoreDamage
    \/ StoreReset
    \/ StoreRemove

ShareSpec == Init /\ [][ShareNext]_vars

\* ----------------------------------------------------------------- DetSpec
\* Two stores built by BlockSystem::default() and given the same calls. The
\* generator is a stream of words fixed by the seed; its state is the number
\* of words drawn, taken modulo the period StreamLen. The stream of the real
\* StdRng is not known to the model, so every stream of the period is checked.
StreamLen == 3
WordRange == 3

Streams == [1..StreamLen -> 0..(WordRange - 1)]

\* Faulty variant: one generator for all stores, left where the store that
\* drew last has left it.
Generator_shared(own, latest) == latest

\* choose(&mut self.rand_state): a store draws from the generator it owns.
Generator(own, latest) == own

\* SliceRandom::choose: None for an empty slice without drawing a word, else
\* the element at an index scaled from one word (index from 1 here).
choose(stream, state, len) ==
    IF len = 0 THEN [ret |-> None, state |-> state]
    ELSE [ret |-> Some((stream[state + 1] * len) \div WordRange + 1),
          state |-> (state + 1) % StreamLen]

\* tick_for with the indices drawn from the store's generator: one draw for
\* each slot found untracked while the placement check runs.
seeded_tick_for(pb, state, stream, u, offset, tick, pending, unlocked) ==
    LET pl == Placements(offset)
        runs == PlacementCheck(tick, pending)
        d1 == IF runs /\ ~Tracked(pb, u, pl[1])
              THEN choose(stream, state, Len(unlocked))
              ELSE [ret |-> None, state |-> state]
        d2 == IF runs /\ ~Tracked(pb, u, pl[2])
              THEN choose(stream, d1.state, Len(unlocked))
              ELSE [ret |-> None, state |-> d1.state]
        picks == <<IF IsSome(d1.ret) THEN Unwrap(d1.ret) ELSE 1,
                   IF IsSome(d2.ret) THEN Unwrap(d2.ret) ELSE 1>>
        r == tick_for(pb, u, offset, tick, pending, unlocked, picks)
    IN  [store |-> r.store, updates |-> r.updates, packets |-> r.packets,
         rand_state |-> d2.state]

DetInit ==
    /\ Init
    /\ unlocked_blocks = AllUnlocked

\* The generator is seeded when the store is built.
DetSeed ==
    /\ last.op = "init"
    /\ rng_stream' \in Streams
    /\ twin' = [placed_blocks |-> <<>>, rand_state |-> default_rng]
    /\ last' = [op |-> "default"]
    /\ UNCHANGED <<placed_blocks, damage_calls, damage_ticks, rand_state, caster,
                   unlocked_blocks, session_vars_less>>

\* The same tick_for call on either store, one store after the other.
DetTickFor ==
    /\ last.op # "init"
    /\ \E tick \in {1, Cadence}, pending \in PendingSamples,
          unlocked \in UnlockedChoices :
        LET a == seeded_tick_for(placed_blocks,
                                 Generator(rand_state, twin.rand_state),
                                 rng_stream, Host, Anchor, tick, pending, unlocked)
            b == seeded_tick_for(twin.placed_blocks,
                                 Generator(twin.rand_state, a.rand_state),
                                 rng_stream, Host, Anchor, tick, pending, unlocked)
        IN  /\ placed_blocks' = a.store
            /\ rand_state' = a.rand_state
            /\ twin' = [placed_blocks |-> b.store, rand_state |-> b.rand_state]
            /\ last' = [op |-> "tick_for", tick |-> tick, pending |-> pending,
                        unlocked |-> unlocked, updates |-> a.updates,
                        twin_updates |-> b.updates, store |-> placed_blocks]
    /\ UNCHANGED <<rng_stream, damage_calls, damage_ticks, caster, unlocked_blocks,
                   session_vars_less>>

\* The same input breaks a voxel in either store.
DetRemove ==
    /\ last.op # "init"
    /\ \E pos \in Positions :
        LET a == remove(placed_blocks, Host, pos)
            b == remove(twin.placed_blocks, Host, pos)
        IN  /\ placed_blocks' = a.store
            /\ twin' = [twin EXCEPT !.placed_blocks = b.store]
            /\ last' = [op |-> "remove", pos |-> pos, ret |-> a.ret,
                        twin_ret |-> b.ret, store |-> placed_blocks]
    /\ UNCHANGED <<rng_stream, rand_state, damage_calls, damage_ticks, caster,
                   unlocked_blocks, session_vars_less>>

DetNext ==
    \/ DetSeed
    \/ DetTickFor
    \/ DetRemove

DetSpec == DetInit /\ [][DetNext]_vars

\* ----------------------------------------------------------------- RaySpec
\* RayTraceIterator in exact arithmetic. A length is an integer number of
\* units, Unit to the block, fine enough for LERP_CONSTANT times any direction
\* of the table below to be whole. An angle is given by its sine and cosine in
\* fifths; the angle 0 is exact in the code as well, the others stand for the
\* f32 angles nearest to them.
LERP_SCALE == 10000000
Unit == 25 * LERP_SCALE

Angle(s, c) == [sin |-> s, cos |-> c, nan |-> FALSE]
\* An f32 that is not a number; the rotation of a Location is whatever f32
\* the client has sent.
NaNAngle == [sin |-> 0, cos |-> 0, nan |-> TRUE]
Yaws == {Angle(0, 5), Angle(3, 4), Angle(-4, 3), Angle(4, -3), NaNAngle}
Pitches == {Angle(0, 5), Angle(3, 4), Angle(-4, 3)}

\* Origins in half blocks, and the distances cast.
Halves == {0, 1}
Origins == Halves \X Halves \X Halves
Distances == {0, 1, 5}

\* direction_from_yaw_pitch, in 25ths.
direction_from_yaw_pitch(yaw, pitch) ==
    <<-(pitch.cos * yaw.sin), -(5 * pitch.sin), pitch.cos * yaw.cos>>

\* Vec3D::length, for the vectors whose length is whole.
length(v) ==
    CHOOSE n \in 0..(25 * 25) : n * n = v[1] * v[1] + v[2] * v[2] + v[3] * v[3]

\* normalize() and the product with max_distance: the direction in units.
Scaled(v, max_distance) ==
    [i \in 1..3 |-> ((v[i] * 25) \div length(v)) * max_distance * (Unit \div 25)]

\* start + LERP_CONSTANT * (end - start), LERP_CONSTANT = -1 / LERP_SCALE.
lerp(start, end) == start - (end - start) \div LERP_SCALE

floor(value) == value \div Unit
frac(value) == value % Unit
sign(value) == IF value = 0 THEN 0 ELSE IF value > 0 THEN 1 ELSE -1
Abs(value) == IF value < 0 THEN -value ELSE value

\* An f64 of the iterator: num / den when lvl is 0; f64::MAX * num / den, a
\* finite value above every quotient of lengths, when lvl is 1; infinity when
\* lvl is 2; not a number when lvl is 3.
Quotient(num, den) == [lvl |-> 0, num |-> num, den |-> den]
F64Max == [lvl |-> 1, num |-> Unit, den |-> Unit]
Infinity == [lvl |-> 2, num |-> 1, den |-> 1]
NaN == [lvl |-> 3, num |-> 1, den |-> 1]

\* a / b < c / d for b, d > 0 and a, c >= 0, by the whole parts and then the
\* inverted remainders, so that no product is formed.
RECURSIVE RatLess(_, _, _, _)
RatLess(a, b, c, d) ==
    IF a \div b # c \div d THEN a \div b < c \div d
    ELSE IF c % d = 0 THEN FALSE
    ELSE IF a % b = 0 THEN TRUE
    ELSE RatLess(d, c % d, b, a % b)

\* x < y on f64; false whenever one of them is not a number.
Less(x, y) ==
    IF x = NaN \/ y = NaN THEN FALSE
    ELSE IF x.lvl # y.lvl THEN x.lvl < y.lvl
    ELSE IF x.lvl = 2 THEN FALSE
    ELSE RatLess(x.num, x.den, y.num, y.den)

\* x > 1.0
AboveOne(x) == x # NaN /\ (x.lvl > 0 \/ x.num > x.den)

\* ax_div: f64::MAX on an axis without motion, else sign / delta_lerp.
AxisDiv(delta_lerp) ==
    IF sign(delta_lerp) = 0 THEN F64Max ELSE Quotient(Unit, Abs(delta_lerp))

\* ax_div * part, part a length below or equal to one block.
Times(div, part) ==
    IF div.lvl = 0 THEN Quotient(part, div.den)
    ELSE IF part = 0 THEN Quotient(0, 1)
    ELSE [lvl |-> 1, num |-> part, den |-> Unit]

\* frac += delta_div; f64::MAX added to a positive multiple of itself
\* overflows to infinity.
Plus(x, div) ==
    IF x = NaN \/ div = NaN THEN NaN
    ELSE IF div.lvl = 0 THEN Quotient(x.num + Unit, x.den)
    ELSE IF x.lvl = 0 /\ x.num = 0 THEN F64Max
    ELSE Infinity

\* RayTraceIterator::new for a yaw or pitch that is not a number. The sine and
\* cosine of the angle are NaN, so is length(), and normalize() leaves NaN in
\* every component, whatever max_distance is. end and both lerps are NaN;
\* floor(NaN) is 0 ("NaN as i32" is 0 and NaN < 0.0 is false); from.eq(&end)
\* is false; sign(NaN) is -1 (neither == 0.0 nor > 0.0), so every div is
\* -1.0 / NaN and every frac NaN * frac(NaN).
new_nan ==
    [empty |-> FALSE, has_next_block |-> TRUE, delta |-> <<-1, -1, -1>>,
     delta_div |-> [i \in 1..3 |-> NaN], local |-> [i \in 1..3 |-> 0],
     frac |-> [i \in 1..3 |-> NaN]]

\* RayTraceIterator::new for angles that are numbers.
new_finite(from, yaw, pitch, max_distance) ==
    LET direction == Scaled(direction_from_yaw_pitch(yaw, pitch), max_distance)
        start == [i \in 1..3 |-> from[i] * (Unit \div 2)]
        end == [i \in 1..3 |-> start[i] + direction[i]]
        l_ets == [i \in 1..3 |-> lerp(end[i], start[i])]
        l_ste == [i \in 1..3 |-> lerp(start[i], end[i])]
        local == [i \in 1..3 |-> floor(l_ste[i])]
        empty == start = end
        delta_lerp == [i \in 1..3 |-> l_ets[i] - l_ste[i]]
        a == [i \in 1..3 |-> sign(delta_lerp[i])]
        div == [i \in 1..3 |-> AxisDiv(delta_lerp[i])]
    IN  IF ~empty
        THEN [empty |-> empty, has_next_block |-> TRUE, delta |-> a,
              delta_div |-> div, local |-> local,
              frac |-> [i \in 1..3 |->
                          Times(div[i], IF a[i] > 0 THEN Unit - frac(l_ste[i])
                                        ELSE frac(l_ste[i]))]]
        ELSE [empty |-> empty, has_next_block |-> FALSE,
              delta |-> <<-1, -1, -1>>,
              delta_div |-> [i \in 1..3 |-> Quotient(-1, 1)],
              local |-> local,
              frac |-> [i \in 1..3 |-> Quotient(-1, 1)]]

\* RayTraceIterator::new
new(from, yaw, pitch, max_distance) ==
    IF yaw.nan \/ pitch.nan THEN new_nan
    ELSE new_finite(from, yaw, pitch, max_distance)

\* What frac.i < frac.j can give. Two axes with motion exist only under an
\* angle other than 0, whose sine and cosine the code has rounded: where the
\* exact values are equal the rounded ones may compare either way.
Compare(it, i, j) ==
    IF /\ it.delta[i] # 0
       /\ it.delta[j] # 0
       /\ it.frac[i] # NaN
       /\ it.frac[j] # NaN
       /\ ~Less(it.frac[i], it.frac[j])
       /\ ~Less(it.frac[j], it.frac[i])
    THEN BOOLEAN
    ELSE {Less(it.frac[i], it.frac[j])}

\* The axes the iterator can advance on.
StepAxes(it) ==
    {IF xy THEN (IF xz THEN 1 ELSE 3) ELSE (IF yz THEN 2 ELSE 3) :
        <<xy, xz, yz>> \in Compare(it, 1, 2) \X Compare(it, 1, 3) \X Compare(it, 2, 3)}

\* Faulty variant: on an equal pair of fractions both axes are advanced.
next_both(it) ==
    IF ~it.has_next_block THEN {[it |-> it, ret |-> None, axis |-> 0]}
    ELSE IF AboveOne(it.frac[1]) /\ AboveOne(it.frac[2]) /\ AboveOne(it.frac[3])
    THEN {[it |-> [it EXCEPT !.has_next_block = FALSE, !.empty = TRUE],
           ret |-> Some(it.local), axis |-> 0]}
    ELSE {[it |-> [it EXCEPT
                      !.local = [j \in 1..3 |->
                                    IF it.frac[j] = it.frac[k]
                                    THEN it.local[j] + it.delta[j]
                                    ELSE it.local[j]],
                      !.frac = [j \in 1..3 |->
                                   IF it.frac[j] = it.frac[k]
                                   THEN Plus(it.frac[j], it.delta_div[j])
                                   ELSE it.frac[j]]],
           ret |-> Some(it.local), axis |-> k] : k \in StepAxes(it)}

\* Iterator::next: the outcomes [it, ret] of one call; axis is the axis the
\* call has advanced on, 0 if none.
next(it) ==
    IF ~it.has_next_block THEN {[it |-> it, ret |-> None, axis |-> 0]}
    ELSE IF AboveOne(it.frac[1]) /\ AboveOne(it.frac[2]) /\ AboveOne(it.frac[3])
    THEN {[it |-> [it EXCEPT !.has_next_block = FALSE, !.empty = TRUE],
           ret |-> Some(it.local), axis |-> 0]}
    ELSE {[it |-> [it EXCEPT !.local[k] = @ + it.delta[k],
                             !.frac[k] = Plus(@, it.delta_div[k])],
           ret |-> Some(it.local), axis |-> k] : k \in StepAxes(it)}

\* The calls of next() the model follows: MaxYield coordinates, MaxNones
\* calls answered None.
MaxYield == 24
MaxNones == 2

RayNew ==
    /\ caster = <<>>
    /\ \E from \in Origins, yaw \in Yaws, pitch \in Pitches,
          max_distance \in Distances :
        caster' = [it |-> new(from, yaw, pitch, max_distance), from |-> from,
                   yaw |-> yaw, pitch |-> pitch, max_distance |-> max_distance,
                   yielded |-> <<>>, ended |-> FALSE, nones |-> 0]
    /\ last' = [op |-> "new"]
    /\ UNCHANGED <<placed_blocks, unlocked_blocks, session_vars_less, damage_calls,
                   damage_ticks, rand_state, rng_stream, twin>>

\* One call of next(); the calls go on after the first None.
RayNext ==
    /\ caster # <<>>
    /\ caster.nones < MaxNones
    /\ Len(caster.yielded) < MaxYield
    /\ \E r \in next(caster.it) :
           /\ caster' = [caster EXCEPT
                            !.it = r.it,
                            !.yielded = IF IsSome(r.ret)
                                        THEN Append(@, Unwrap(r.ret)) ELSE @,
                            !.ended = @ \/ r.ret = None,
                            !.nones = IF r.ret = None THEN @ + 1 ELSE @]
           /\ last' = [op |-> "next", ret |-> r.ret, axis |-> r.axis,
                       it |-> caster.it, ended |-> caster.ended]
    /\ UNCHANGED <<placed_blocks, unlocked_blocks, session_vars_less, damage_calls,
                   damage_ticks, rand_state, rng_stream, twin>>

RayStep ==
    \/ RayNew
    \/ RayNext

RaySpec == Init /\ [][RayStep]_vars

\* ----------------------------------------------------------- ReplenishSpec
\* The session over two rounds of the placement cadence, one step per call of
\* GameSessionPlayer::tick: the counter, tick_for, then GlobPlayerState::tick
\* with the packets the queue holds, taken whole. The player has the first
\* descriptor unlocked and holds slot 0. last.empty_since[s] is the tick whose
\* packet loop has removed the voxel of slot s, None while s is tracked or has
\* never been.
Horizon == 42
MaxLoop == 1

ReplenishSeqs == {3}

\* The packets of one tick. NotLoaded is any packet met while is_loaded() is
\* false.
ReplenishPackets ==
    {[type |-> "Swing", ray |-> ray] : ray \in RayTraces}
    \cup {[type |-> "StartDestroyBlock", at_pos |-> p, sequence |-> q] :
              p \in {SlotA, SlotB}, q \in ReplenishSeqs}
    \cup {[type |-> t, sequence |-> q] :
              t \in {"AbortDestroyBlock", "StopDestroyBlock"}, q \in ReplenishSeqs}
    \cup {[type |-> "NotLoaded"]}

PacketRuns ==
    UNION {[1 .. n -> ReplenishPackets] : n \in 0 .. MaxLoop}

\* One arm of the match on the packet. st holds the phase, the guard, the
\* store, the pending sequence and the events collected so far.
handle_packet(st, packet) ==
    IF packet.type = "Swing"
    THEN LET r == continue_destroying(st.ds, st.guard, st.store, Host, packet.ray)
         IN  [ds |-> r.ds, guard |-> r.guard, store |-> r.store,
              pending |-> st.pending, events |-> st.events \o r.event]
    ELSE IF packet.type = "StartDestroyBlock"
    THEN [st EXCEPT !.ds = start_destroying(st.ds, packet.at_pos).ds,
                    !.pending = ack(st.pending, packet.sequence)]
    ELSE IF packet.type = "AbortDestroyBlock"
    THEN LET r == abort_destroying(st.ds, st.store, Host)
         IN  [st EXCEPT !.ds = r.ds, !.store = r.store,
                        !.pending = ack(st.pending, packet.sequence)]
    ELSE [st EXCEPT !.pending =
             stop_destroying(st.ds, ack(st.pending, packet.sequence),
                             st.store, Host).pending]

\* The while loop: return vec![] when the player is not loaded, reset_tick
\* when the queue is empty.
RECURSIVE run_packets(_, _)
run_packets(st, packets) ==
    IF packets = <<>> THEN [st EXCEPT !.guard = FALSE]
    ELSE IF Head(packets).type = "NotLoaded" THEN [st EXCEPT !.events = <<>>]
    ELSE run_packets(handle_packet(st, Head(packets)), Tail(packets))

\* The slots the loop of this tick has emptied carry the tick; a slot that is
\* tracked carries None; an empty slot keeps what it carried.
EmptySince(since, tick, placed, store) ==
    [s \in {SlotA, SlotB} |->
        IF Tracked(store, Host, s) THEN None
        ELSE IF Tracked(placed, Host, s) THEN Some(tick)
        ELSE since[s]]

\* GameSession::new for a player whose stored data unlocks the first
\* descriptor.
ReplenishInit ==
    /\ placed_blocks = <<>>
    /\ unlocked_blocks = FirstUnlocked
    /\ current_tick = 0
    /\ destroying_state = Idle
    /\ destroying_block_sequence = None
    /\ damage_this_tick = FALSE
    /\ current_slot = 0
    /\ stateful_events = <<>>
    /\ pc = "idle"
    /\ packets_handled = 0
    /\ hits_this_tick = 0
    /\ acks_this_tick = 0
    /\ stops_this_tick = 0
    /\ unacked = {}
    /\ requests = <<>>
    /\ damage_calls = [k \in Uuids \X Positions |-> 0]
    /\ damage_ticks = [p \in Positions |-> NoTicks]
    /\ rand_state = default_rng
    /\ rng_stream = <<>>
    /\ twin = <<>>
    /\ caster = <<>>
    /\ last = [op |-> "init"]

ReplenishTick ==
    /\ current_tick < Horizon
    /\ \E picks \in Picks(unlocked_blocks), packets \in PacketRuns :
        LET tick == current_tick + 1
            flush == execute_ack(destroying_block_sequence)
        IN  \E placed \in {tick_for(placed_blocks, Host, Anchor, tick,
                                     destroying_block_sequence, unlocked_blocks,
                                     picks)} :
            \E st \in {run_packets([ds |-> destroying_state,
                                     guard |-> damage_this_tick,
                                     store |-> placed.store,
                                     pending |-> flush.pending,
                                     events |-> <<>>], packets)} :
                /\ current_tick' = tick
                /\ placed_blocks' = st.store
                /\ destroying_state' = st.ds
                /\ damage_this_tick' = st.guard
                /\ destroying_block_sequence' = st.pending
                /\ last' = [op |-> "tick", events |-> st.events,
                            updates |-> placed.updates,
                            empty_since |->
                                EmptySince(IF last.op = "init"
                                           THEN [s \in {SlotA, SlotB} |-> None]
                                           ELSE last.empty_since,
                                           tick, placed.store, st.store)]
    /\ UNCHANGED <<unlocked_blocks, current_slot, stateful_events, pc,
                   packets_handled, hits_this_tick, acks_this_tick,
                   stops_this_tick, unacked, requests, damage_calls, model_rest>>

ReplenishNext == ReplenishTick

ReplenishSpec == ReplenishInit /\ [][ReplenishNext]_vars

\* ----------------------------------------------------------------- AckSpec
\* ack and execute_ack of one PlayerDestroyingState, called in any order.
ack_rest ==
    <<placed_blocks, unlocked_blocks, current_tick, destroying_state,
      damage_this_tick, current_slot, stateful_events, pc, packets_handled,
      hits_this_tick, acks_this_tick, stops_this_tick, unacked, damage_calls,
      model_rest>>

AckRequest ==
    /\ Len(requests) < MaxReqs
    /\ \E seq \in Seqs :
        /\ destroying_block_sequence' = ack(destroying_block_sequence, seq)
        /\ requests' = Append(requests, seq)
        /\ last' = [op |-> "ack", seq |-> seq, sent |-> <<>>]
    /\ UNCHANGED ack_rest

AckFlush ==
    /\ LET flush == execute_ack(destroying_block_sequence)
       IN  /\ destroying_block_sequence' = flush.pending
           /\ last' = [op |-> "execute_ack", reqs |-> requests,
                       sent |-> flush.sent]
    /\ requests' = <<>>
    /\ UNCHANGED ack_rest

AckNext ==
    \/ AckRequest
    \/ AckFlush

AckSpec == Init /\ [][AckNext]_vars

\* ================================================================== claims
RECURSIVE MaxOf(_)
MaxOf(s) == IF Len(s) = 1 THEN s[1] ELSE Max(s[1], MaxOf(Tail(s)))

Health(pb, u, pos) == pb[u][pos].health
InitialHealth(pb, u, pos) == pb[u][pos].block_data.initial_health

\* C1: in every tick of the player at most one health decrement is applied to
\* the player's voxels, whatever packets the tick handles and in what order.
C1_OneDamagePerTick == hits_this_tick <= 1

\* A second Swing on a tracked Started target, in a tick that already damaged.
C1_Witness ==
    /\ hits_this_tick = 1
    /\ last.op = "swing" /\ last.ran /\ last.guard
    /\ last.before.tag = "Started"
    /\ Tracked(placed_blocks, Host, last.before.pos)

\* C2: after GlobPlayerState::tick has returned, on every path, the damage
\* guard is false.
C2_GuardClearAfterTick == pc = "idle" => ~damage_this_tick

\* C3: the pending ack is the maximum of the requests since the last flush (so
\* it never decreases while pending), a flush writes exactly one ack carrying
\* that maximum, or nothing when nothing was requested, and ack(3), ack(7),
\* ack(5) before a flush give one ack carrying 7.
C3_AckCoalescing ==
    /\ destroying_block_sequence =
           (IF requests = <<>> THEN None ELSE Some(MaxOf(requests)))
    /\ last.op = "execute_ack" =>
           last.sent = (IF last.reqs = <<>> THEN <<>>
                        ELSE <<AckPacket(MaxOf(last.reqs))>>)
    /\ (last.op = "execute_ack" /\ last.reqs = <<3, 7, 5>>) =>
           last.sent = <<AckPacket(7)>>

C3_Witness ==
    /\ last.op = "execute_ack"
    /\ last.reqs = <<3, 7, 5>>
    /\ last.sent = <<AckPacket(7)>>
    /\ destroying_block_sequence = None

\* C4 as stated: no more than one BlockChangedAck is sent in one tick.
C4_AtMostOneAckPerTick == acks_this_tick <= 1

\* C4 amended: in one tick the start of the tick sends at most one ack, every
\* StopDestroy handled in phase Started or Aborted sends exactly one more, and
\* no other input sends one.
C4_AckPerTickAndStop ==
    /\ acks_this_tick <= 1 + stops_this_tick
    /\ last.op = "begin_tick" => AckCount(last.sent) <= 1
    /\ last.op \in {"swing", "start", "abort"} => AckCount(last.sent) = 0
    /\ last.op = "stop" =>
           AckCount(last.sent) = (IF last.before.tag = "None" THEN 0 ELSE 1)

C4_Witness ==
    /\ acks_this_tick >= 2
    /\ last.op = "stop"
    /\ last.before.tag # "None"

\* C5: every sequence number of a StartDestroy, AbortDestroy or StopDestroy is
\* covered by the pending ack until an ack at least as large has been written,
\* and once the next tick has run its execute_ack none is left unacknowledged.
C5_EverySequenceAcked ==
    /\ unacked # {} =>
           /\ IsSome(destroying_block_sequence)
           /\ \A s \in unacked : s <= Unwrap(destroying_block_sequence)
    /\ (pc = "packets" /\ packets_handled = 0) => unacked = {}

\* The start of a tick acknowledges 7 while the phase is still Idle.
C5_Witness ==
    /\ last.op = "begin_tick"
    /\ last.sent = <<AckPacket(7)>>
    /\ destroying_state = Idle
    /\ unacked = {}

\* C6: a tracked voxel's health goes up only in a reset step (AbortDestroy, or
\* the continuation that finds the Aborted target on the ray), and after such a
\* step the target's health is its descriptor's initial health.
ResetTarget ==
    IF last'.op = "abort" /\ last'.before.tag # "None"
    THEN Some(last'.before.pos)
    ELSE IF /\ last'.op = "swing" /\ last'.ran /\ ~last'.guard
            /\ last'.before.tag = "Aborted"
            /\ destroying_state'.tag = "Started"
    THEN Some(last'.before.pos)
    ELSE None

C6_Step ==
    /\ \A pos \in Positions :
        (Tracked(placed_blocks, Host, pos) /\ Tracked(placed_blocks', Host, pos)) =>
            \/ Health(placed_blocks', Host, pos) <= Health(placed_blocks, Host, pos)
            \/ ResetTarget = Some(pos)
    /\ (IsSome(ResetTarget) /\ Tracked(placed_blocks', Host, Unwrap(ResetTarget))) =>
           Health(placed_blocks', Host, Unwrap(ResetTarget)) =
               InitialHealth(placed_blocks', Host, Unwrap(ResetTarget))

C6_HealthOnlyDecreases == [][C6_Step]_vars

\* An AbortDestroy found its target damaged and left it at full health.
C6_Witness ==
    /\ last.op = "abort"
    /\ IsSome(last.pre)
    /\ Tracked(placed_blocks, Host, last.before.pos)
    /\ Unwrap(last.pre) < Health(placed_blocks, Host, last.before.pos)

\* The health the voxel of the last store call had before the call.
LastPre == HealthOf(last.store, last.uuid, last.pos)

\* C7 as stated: damage on a voxel of health h >= 1 leaves h - 1 and returns
\* (h - 1, initial); at 0 it returns (0, 0) and leaves 0.
C7_DamageReturnsRemainingInitial ==
    (last.op = "attempt_damage_block" /\ IsSome(LastPre)) =>
        /\ Tracked(placed_blocks, last.uuid, last.pos)
        /\ IF Unwrap(LastPre) >= 1
           THEN /\ Health(placed_blocks, last.uuid, last.pos) = Unwrap(LastPre) - 1
                /\ last.ret = Some(<<Unwrap(LastPre) - 1,
                                     InitialHealth(last.store, last.uuid, last.pos)>>)
           ELSE /\ Health(placed_blocks, last.uuid, last.pos) = 0
                /\ last.ret = Some(<<0, 0>>)

\* C7 amended: damage on a voxel of health h >= 1 leaves h - 1; it returns
\* (h - 1, initial) when h >= 2 and (0, 0) when h = 1; at 0 it returns (0, 0)
\* and leaves 0.
C7_DamageReturn ==
    (last.op = "attempt_damage_block" /\ IsSome(LastPre)) =>
        /\ Tracked(placed_blocks, last.uuid, last.pos)
        /\ Health(placed_blocks, last.uuid, last.pos) =
               (IF Unwrap(LastPre) >= 1 THEN Unwrap(LastPre) - 1 ELSE 0)
        /\ last.ret =
               (IF Unwrap(LastPre) >= 2
                THEN Some(<<Unwrap(LastPre) - 1,
                            InitialHealth(last.store, last.uuid, last.pos)>>)
                ELSE Some(<<0, 0>>))

\* The last point of health of a voxel of initial health 2 is taken.
C7_Witness ==
    /\ last.op = "attempt_damage_block"
    /\ LastPre = Some(1)
    /\ InitialHealth(last.store, last.uuid, last.pos) = 2
    /\ last.ret = Some(<<0, 0>>)

\* C8: with n damage calls since a voxel of initial health H was placed or
\* reset, its health is H - n while n < H and 0 from the H-th call on; the H-th
\* and every later call return (0, 0), the earlier ones a remaining above 0.
C8_SequentialDamage ==
    /\ \A u \in Uuids, pos \in Positions :
        Tracked(placed_blocks, u, pos) =>
            Health(placed_blocks, u, pos) =
                (IF damage_calls[<<u, pos>>] >= InitialHealth(placed_blocks, u, pos)
                 THEN 0
                 ELSE InitialHealth(placed_blocks, u, pos) - damage_calls[<<u, pos>>])
    /\ (last.op = "attempt_damage_block" /\ IsSome(LastPre)) =>
           IF last.calls + 1 >= InitialHealth(last.store, last.uuid, last.pos)
           THEN last.ret = Some(<<0, 0>>)
           ELSE /\ IsSome(last.ret)
                /\ Unwrap(last.ret)[1] =
                       InitialHealth(last.store, last.uuid, last.pos) - (last.calls + 1)
                /\ Unwrap(last.ret)[1] > 0

\* The third damage call on a voxel of initial health 2.
C8_Witness ==
    /\ last.op = "attempt_damage_block"
    /\ IsSome(LastPre)
    /\ InitialHealth(last.store, last.uuid, last.pos) = 2
    /\ last.calls = 2
    /\ last.ret = Some(<<0, 0>>)
    /\ Health(placed_blocks, last.uuid, last.pos) = 0

\* C9: a damage call that returns (0, 0) leaves the voxel tracked with its
\* descriptor and check_destroy true for it; check_destroy is true exactly for
\* the tracked coordinates whose health is 0.
C9_NoAutoRemove ==
    /\ (last.op = "attempt_damage_block" /\ IsSome(LastPre)) =>
           /\ current_state(placed_blocks, last.uuid, last.pos) =
                  current_state(last.store, last.uuid, last.pos)
           /\ IsSome(current_state(placed_blocks, last.uuid, last.pos))
           /\ last.ret = Some(<<0, 0>>) =>
                  check_destroy(placed_blocks, last.uuid, last.pos)
    /\ \A u \in Uuids, pos \in Positions :
           check_destroy(placed_blocks, u, pos) <=>
               (Tracked(placed_blocks, u, pos) /\ Health(placed_blocks, u, pos) = 0)
    /\ last.op = "check_destroy" =>
           (last.ret <=> (/\ Tracked(placed_blocks, last.uuid, last.pos)
                          /\ Health(placed_blocks, last.uuid, last.pos) = 0))

\* A damage call took the last point of health and the voxel is still there.
C9_Witness ==
    /\ last.op = "attempt_damage_block"
    /\ LastPre = Some(1)
    /\ Tracked(placed_blocks, last.uuid, last.pos)
    /\ check_destroy(placed_blocks, last.uuid, last.pos)

\* C10: reset_progress on a tracked voxel leaves its health at the descriptor's
\* initial health whatever was dealt before, keeps its descriptor, changes no
\* other voxel and is idempotent; on an untracked coordinate it returns absent
\* and changes nothing.
OthersUnchanged(pb, pb2, u, pos) ==
    /\ DOMAIN pb2 = DOMAIN pb
    /\ \A v \in DOMAIN pb :
        /\ DOMAIN pb2[v] = DOMAIN pb[v]
        /\ \A q \in DOMAIN pb[v] : <<v, q>> # <<u, pos>> => pb2[v][q] = pb[v][q]

C10_ResetProgress ==
    last.op = "reset_progress" =>
        IF Tracked(last.store, last.uuid, last.pos)
        THEN /\ last.ret = Some(TRUE)
             /\ Tracked(placed_blocks, last.uuid, last.pos)
             /\ Health(placed_blocks, last.uuid, last.pos) =
                    InitialHealth(last.store, last.uuid, last.pos)
             /\ placed_blocks[last.uuid][last.pos].block_data =
                    last.store[last.uuid][last.pos].block_data
             /\ OthersUnchanged(last.store, placed_blocks, last.uuid, last.pos)
             /\ reset_progress(placed_blocks, last.uuid, last.pos).store = placed_blocks
        ELSE /\ last.ret = None
             /\ placed_blocks = last.store

\* A voxel of initial health 2 is reset after two damage calls, next to a
\* damaged voxel that stays as it was.
C10_Witness ==
    /\ last.op = "reset_progress"
    /\ LastPre = Some(0)
    /\ last.calls = 2
    /\ Health(placed_blocks, last.uuid, last.pos) = 2
    /\ \E q \in Positions \ {last.pos} :
        /\ Tracked(placed_blocks, last.uuid, q)
        /\ Health(placed_blocks, last.uuid, q) < InitialHealth(placed_blocks, last.uuid, q)

\* Every voxel other than (u, pos) is tracked after exactly when it was
\* before, with the same record.
OthersKept(pb, pb2, u, pos) ==
    /\ DOMAIN pb2 = DOMAIN pb
    /\ \A v \in DOMAIN pb : \A q \in Positions :
        <<v, q>> # <<u, pos>> =>
            /\ Tracked(pb2, v, q) = Tracked(pb, v, q)
            /\ Tracked(pb, v, q) => pb2[v][q] = pb[v][q]

\* C11: remove(player, coord) on a tracked voxel returns that voxel's
\* descriptor and leaves the coordinate untracked: a following current_state,
\* attempt_damage_block, reset_progress or remove on it returns absent and
\* check_destroy returns false; no other voxel of any player changes.
C11_RemoveTracked ==
    (last.op = "remove" /\ Tracked(last.store, last.uuid, last.pos)) =>
        /\ last.ret = Some(last.store[last.uuid][last.pos].block_data)
        /\ ~Tracked(placed_blocks, last.uuid, last.pos)
        /\ current_state(placed_blocks, last.uuid, last.pos) = None
        /\ attempt_damage_block(placed_blocks, last.uuid, last.pos).ret = None
        /\ reset_progress(placed_blocks, last.uuid, last.pos).ret = None
        /\ remove(placed_blocks, last.uuid, last.pos).ret = None
        /\ ~check_destroy(placed_blocks, last.uuid, last.pos)
        /\ OthersKept(last.store, placed_blocks, last.uuid, last.pos)

\* A damaged voxel is removed while the other slot of the same player is
\* tracked and damaged too.
C11_Witness ==
    /\ last.op = "remove"
    /\ LastPre = Some(1)
    /\ last.ret = Some(AvailableBlockData(1))
    /\ ~Tracked(placed_blocks, last.uuid, last.pos)
    /\ \E q \in Positions \ {last.pos} :
        /\ Tracked(placed_blocks, last.uuid, q)
        /\ Health(placed_blocks, last.uuid, q) < InitialHealth(placed_blocks, last.uuid, q)

StoreLookups ==
    {"current_state", "check_destroy", "remove", "reset_progress",
     "attempt_damage_block"}

\* C12: current_state, check_destroy, remove, reset_progress and
\* attempt_damage_block called for an untracked coordinate, or for a player
\* that has no partition, return absent (false for check_destroy) and leave
\* the whole store as it was.
C12_AbsenceIsNormal ==
    (last.op \in StoreLookups /\ ~Tracked(last.store, last.uuid, last.pos)) =>
        /\ last.ret = (IF last.op = "check_destroy" THEN FALSE ELSE None)
        /\ placed_blocks = last.store

\* remove is called for a player that has no partition while the other
\* player has tracked voxels.
C12_Witness ==
    /\ last.op = "remove"
    /\ last.uuid \notin DOMAIN last.store
    /\ \E v \in DOMAIN last.store : DOMAIN last.store[v] # {}
    /\ last.ret = None

\* attempt_damage_block is called for an untracked coordinate of a player whose
\* partition holds other voxels.
C12_WitnessUntracked ==
    /\ last.op = "attempt_damage_block"
    /\ last.uuid \in DOMAIN last.store
    /\ DOMAIN last.store[last.uuid] # {}
    /\ last.pos \notin DOMAIN last.store[last.uuid]

SetMax(S) == CHOOSE m \in S : \A x \in S : x <= m

\* C13: StartDestroy(coord, seq), received in any phase, leaves the session in
\* Started(coord), the one Started target there is, and coalesces seq into the
\* pending ack (the pending value is the largest sequence not yet
\* acknowledged, seq among them); a progress reset (BlockDestruction with
\* progress 255) for the previous target is sent exactly when the phase before
\* was Started, whatever its coordinate, and nothing else is sent.
C13_StartDestroy ==
    last.op = "start" =>
        /\ destroying_state = Started(last.at_pos)
        /\ last.sequence \in unacked
        /\ destroying_block_sequence = Some(SetMax(unacked))
        /\ last.sent = (IF last.before.tag = "Started"
                        THEN <<BlockDestruction(last.before.pos)>>
                        ELSE <<>>)

\* StartDestroy on a second coordinate while the first is Started, with a
\* smaller sequence than the one pending.
C13_Witness ==
    /\ last.op = "start"
    /\ last.before = Started(SlotA)
    /\ last.at_pos = SlotB
    /\ last.sequence = 3
    /\ destroying_block_sequence = Some(7)
    /\ last.sent = <<BlockDestruction(SlotA)>>

\* StartDestroy on the coordinate that is already Started.
C13_WitnessSame ==
    /\ last.op = "start"
    /\ last.before = Started(SlotA)
    /\ last.at_pos = SlotA
    /\ last.sent = <<BlockDestruction(SlotA)>>

\* StartDestroy in phase Aborted.
C13_WitnessAborted ==
    /\ last.op = "start"
    /\ last.before.tag = "Aborted"
    /\ last.sent = <<>>

\* The block-state updates for pos among the packets of sent.
UpdatesFor(sent, pos) ==
    SelectSeq(sent, LAMBDA m : m.type = "BlockUpdate" /\ m.pos = pos)

AbortInPhase == last.op = "abort" /\ last.before.tag # "None"

\* C14 as stated: AbortDestroy received in Started(coord) or Aborted(coord)
\* leaves Aborted(coord), the health of coord is the initial one, and a
\* block-state update for coord is sent.
C14_AbortRestoresAndSends ==
    AbortInPhase =>
        /\ destroying_state = Aborted(last.before.pos)
        /\ Tracked(placed_blocks, Host, last.before.pos) =>
               Health(placed_blocks, Host, last.before.pos)
                   = InitialHealth(placed_blocks, Host, last.before.pos)
        /\ UpdatesFor(last.sent, last.before.pos) # <<>>

\* C14, amended: AbortDestroy received in Started(coord) or Aborted(coord)
\* leaves Aborted(coord); if coord is tracked its health is the initial one
\* afterwards and a progress reset followed by the block state of the tracked
\* voxel is sent; if coord is untracked nothing is sent.
C14_AbortRestoresTracked ==
    AbortInPhase =>
        /\ destroying_state = Aborted(last.before.pos)
        /\ IF Tracked(placed_blocks, Host, last.before.pos)
           THEN /\ Health(placed_blocks, Host, last.before.pos)
                       = InitialHealth(placed_blocks, Host, last.before.pos)
                /\ last.sent =
                       <<BlockDestruction(last.before.pos),
                         BlockUpdate(last.before.pos,
                             placed_blocks[Host][last.before.pos].block_data.block_id)>>
           ELSE last.sent = <<>>

\* AbortDestroy on a Started voxel that had lost health.
C14_Witness ==
    /\ AbortInPhase
    /\ last.before.tag = "Started"
    /\ last.pre = Some(1)
    /\ Health(placed_blocks, Host, last.before.pos) = 2
    /\ Len(last.sent) = 2

\* AbortDestroy while the Started coordinate is not tracked.
C14_WitnessUntracked ==
    /\ AbortInPhase
    /\ ~Tracked(placed_blocks, Host, last.before.pos)
    /\ last.sent = <<>>

StopInPhase == last.op = "stop" /\ last.before.tag # "None"

\* The state StopDestroy has to report for pos: the tracked voxel's block
\* state, else the block of the static level, else 0.
AuthoritativeState(pb, u, pos) ==
    IF Tracked(pb, u, pos) THEN pb[u][pos].block_data.block_id
    ELSE IF ChunkExists(pos) THEN level_block(pos)
    ELSE 0

\* C15: StopDestroy received in Started(coord) or Aborted(coord) sends exactly
\* one block-state update for coord, carrying the tracked voxel's state if
\* coord is tracked, else the static world block there if the chunk and block
\* exist, else 0; after it the pending ack is flushed: one ack follows the
\* update, its value is at least the StopDestroy's sequence, and no ack is
\* pending after the input.
C15_StopDestroy ==
    StopInPhase =>
        /\ Len(last.sent) = 2
        /\ last.sent[1] =
               BlockUpdate(last.before.pos,
                           AuthoritativeState(placed_blocks, Host, last.before.pos))
        /\ last.sent[2].type = "BlockChangedAck"
        /\ last.sent[2].sequence_id >= last.sequence
        /\ destroying_block_sequence = None
        /\ destroying_state = last.before

\* StopDestroy on the floor under the anchor, with a larger sequence pending.
C15_Witness ==
    /\ StopInPhase
    /\ last.before.pos = Anchor
    /\ last.sent = <<BlockUpdate(Anchor, Deepslate), AckPacket(7)>>
    /\ last.sequence = 3

\* StopDestroy on a tracked voxel.
C15_WitnessTracked ==
    /\ StopInPhase
    /\ Tracked(placed_blocks, Host, last.before.pos)
    /\ last.sent[1].state = AvailableBlockData(1).block_id

\* StopDestroy on a coordinate outside the chunks of the level.
C15_WitnessNoChunk ==
    /\ StopInPhase
    /\ last.before.pos = Far
    /\ last.sent[1] = BlockUpdate(Far, 0)

\* A step that handles AbortDestroy or StopDestroy in phase Idle changes
\* neither the phase nor the store and writes no packet.
C16_Step ==
    (last'.op \in {"abort", "stop"} /\ last'.before.tag = "None") =>
        /\ destroying_state = Idle
        /\ destroying_state' = Idle
        /\ placed_blocks' = placed_blocks
        /\ \A i \in DOMAIN last'.sent :
               last'.sent[i].type \notin {"BlockUpdate", "BlockDestruction"}

\* C16: AbortDestroy and StopDestroy received in phase Idle are no-ops on the
\* destruction state: the phase stays Idle, the store is unchanged, and no
\* block-state update or progress-reset packet is written.
C16_IdleAbortStopNoOp == [][C16_Step]_vars

\* AbortDestroy was handled in phase Idle while a voxel of the player is
\* damaged.
C16_Witness ==
    /\ last.op = "abort"
    /\ last.before.tag = "None"
    /\ destroying_state = Idle
    /\ \E q \in Positions :
        /\ Tracked(placed_blocks, Host, q)
        /\ Health(placed_blocks, Host, q) < InitialHealth(placed_blocks, Host, q)

\* StopDestroy was handled in phase Idle.
C16_WitnessStop ==
    /\ last.op = "stop"
    /\ last.before.tag = "None"
    /\ last.sent = <<>>

\* The last step was a continuation that ran (main hand, slot 0, guard clear).
Continued == last.op = "swing" /\ last.ran /\ ~last.guard

\* C17: a continuation in Started(coord) on a tracked voxel emits
\* BlockBroken(coord, descriptor) iff its damage call brings the health to 0
\* or finds it at 0. Then the voxel is removed, a block-state update with
\* state 0 is sent for coord, and the descriptor of the event is the removed
\* voxel's. Otherwise the only packet is the progress message and the voxel
\* stays tracked with one point of health less. On an untracked coordinate
\* there is no event.
C17_BlockBrokenIffDestroyed ==
    (Continued /\ last.before.tag = "Started") =>
        IF IsSome(last.pre)
        THEN LET pos == last.before.pos
                 h == Unwrap(last.pre)
                 data == Unwrap(last.data)
             IN  /\ IsSome(last.event) <=> h <= 1
                 /\ h <= 1 =>
                        /\ ~Tracked(placed_blocks, Host, pos)
                        /\ last.event = Some(BlockBroken(pos, data))
                        /\ UpdatesFor(last.sent, pos) = <<BlockUpdate(pos, 0)>>
                 /\ h > 1 =>
                        /\ last.sent = <<ChatProgress(h - 1, data.initial_health)>>
                        /\ Tracked(placed_blocks, Host, pos)
                        /\ Health(placed_blocks, Host, pos) = h - 1
                        /\ placed_blocks[Host][pos].block_data = data
        ELSE last.event = None

\* The second continuation on a voxel of initial health 2 breaks it.
C17_Witness ==
    /\ Continued
    /\ last.before.tag = "Started"
    /\ last.pre = Some(1)
    /\ last.data = Some(AvailableBlockData(1))
    /\ last.event = Some(BlockBroken(last.before.pos, AvailableBlockData(1)))

\* The first continuation on that voxel leaves it tracked.
C17_WitnessProgress ==
    /\ Continued
    /\ last.before.tag = "Started"
    /\ last.pre = Some(2)
    /\ last.sent = <<ChatProgress(1, 2)>>

\* StartDestroy(c, s) has just been handled, c holds a fresh voxel of initial
\* health 1, and the step is a continuation that runs.
C18_Scenario ==
    /\ last.op = "start"
    /\ HealthOf(placed_blocks, Host, last.at_pos) = Some(1)
    /\ Tracked(placed_blocks, Host, last.at_pos)
    /\ InitialHealth(placed_blocks, Host, last.at_pos) = 1
    /\ last'.op = "swing" /\ last'.ran /\ ~last'.guard

C18_Step ==
    /\ C18_Scenario =>
        LET c == last.at_pos
            broken == BlockBroken(c, placed_blocks[Host][c].block_data)
        IN  /\ ~Tracked(placed_blocks', Host, c)
            /\ last'.event = Some(broken)
            /\ stateful_events' = <<broken>>
            /\ UpdatesFor(last'.sent, c) = <<BlockUpdate(c, 0)>>
            /\ IsSome(destroying_block_sequence')
            /\ Unwrap(destroying_block_sequence') >= last.sequence
    /\ (last'.op = "begin_tick" /\ IsSome(destroying_block_sequence)) =>
        last'.sent = <<AckPacket(Unwrap(destroying_block_sequence))>>

\* C18: with a tracked voxel of initial health 1 at c, StartDestroy(c, s)
\* followed by one continuation removes the voxel, emits exactly one
\* BlockBroken event for c in that tick and sends a block-state update for c
\* with state 0; an ack of at least s stays pending, and the execute_ack of
\* the next tick that runs writes the pending ack.
C18_OneHitBreak == [][C18_Step]_vars

\* The tick's first packet was StartDestroy(c, 7), its second the continuation
\* that broke the voxel of initial health 1 at c.
C18_Witness ==
    /\ Continued
    /\ packets_handled = 2
    /\ unacked = {7}
    /\ last.before.tag = "Started"
    /\ last.pre = Some(1)
    /\ last.data = Some(AvailableBlockData(0))
    /\ stateful_events = <<BlockBroken(last.before.pos, AvailableBlockData(0))>>
    /\ destroying_block_sequence = Some(7)

\* The step is a continuation that runs in phase Aborted.
ContinuesAborted ==
    /\ last'.op = "swing" /\ last'.ran /\ ~last'.guard
    /\ last'.before.tag = "Aborted"

\* No voxel of the player is removed or loses health in the step.
NoDamageInStep ==
    \A q \in Positions :
        Tracked(placed_blocks, Host, q) =>
            /\ Tracked(placed_blocks', Host, q)
            /\ Health(placed_blocks', Host, q) >= Health(placed_blocks, Host, q)

C19_Step ==
    /\ (ContinuesAborted /\ last'.before.pos \in Range(last'.ray)) =>
        LET c == last'.before.pos
        IN  /\ destroying_state' = Started(c)
            /\ Tracked(placed_blocks', Host, c) =>
                   Health(placed_blocks', Host, c)
                       = InitialHealth(placed_blocks', Host, c)
            /\ last'.sent =
                   <<BlockUpdate(c, IF Tracked(placed_blocks', Host, c)
                                    THEN placed_blocks'[Host][c].block_data.block_id
                                    ELSE 0)>>
            /\ NoDamageInStep
            /\ last'.event = None
            /\ stateful_events' = <<>>
            /\ damage_this_tick'
    /\ (damage_this_tick /\ pc = "packets") =>
        /\ NoDamageInStep
        /\ Len(stateful_events') <= Len(stateful_events)
        /\ pc' = "packets" => damage_this_tick'

\* C19: a continuation in Aborted(coord) whose ray cast contains coord
\* restores coord's health to the initial value, sends a block-state update
\* for coord, moves to Started(coord), applies no damage and emits no
\* BlockBroken; it sets the guard, and while the guard is set no step of the
\* tick takes health from a voxel or emits an event, so the health is still
\* the initial one when the tick ends.
C19_AbortedReacquire == [][C19_Step]_vars

\* The continuation re-acquired an aborted voxel of initial health 2.
C19_Witness ==
    /\ Continued
    /\ last.before.tag = "Aborted"
    /\ last.before.pos \in Range(last.ray)
    /\ destroying_state = Started(last.before.pos)
    /\ Tracked(placed_blocks, Host, last.before.pos)
    /\ Health(placed_blocks, Host, last.before.pos) = 2
    /\ last.sent = <<BlockUpdate(last.before.pos, AvailableBlockData(1).block_id)>>

C20_Step ==
    /\ (ContinuesAborted /\ last'.before.pos \notin Range(last'.ray)) =>
        /\ destroying_state' = Idle
        /\ placed_blocks' = placed_blocks
        /\ last'.sent = <<>>
        /\ last'.event = None
        /\ stateful_events' = stateful_events
    /\ destroying_state = Idle =>
        /\ NoDamageInStep
        /\ destroying_state' # Idle =>
               /\ last'.op = "start"
               /\ destroying_state' = Started(last'.at_pos)

\* C20: a continuation in Aborted(coord) whose ray cast does not contain coord
\* moves to Idle, changes no voxel, writes no packet and emits no event; and
\* in phase Idle no step takes health from a voxel or removes one, the phase
\* being left only by a StartDestroy.
C20_AbortedLost == [][C20_Step]_vars

\* The continuation lost an aborted voxel: its ray cast went to the other
\* slot.
C20_Witness ==
    /\ Continued
    /\ last.before = Aborted(SlotA)
    /\ last.ray = <<Anchor, SlotB>>
    /\ destroying_state = Idle
    /\ Tracked(placed_blocks, Host, SlotA)
    /\ Tracked(placed_blocks, Host, SlotB)

\* A continuation runs in phase Idle while the player has tracked voxels.
C20_WitnessAfter ==
    /\ Continued
    /\ last.before.tag = "None"
    /\ destroying_state = Idle
    /\ \E q \in Positions : Tracked(placed_blocks, Host, q)

\* C21: a continuation that runs in phase Idle leaves the phase and the
\* damage guard as they were, writes no packet and emits no event.
C21_IdleContinuationNoEffect ==
    (Continued /\ last.before.tag = "None") =>
        /\ destroying_state = last.before
        /\ damage_this_tick = last.guard
        /\ last.sent = <<>>
        /\ last.event = None

\* C22 as stated: in every tick the continuation is executed, whatever
\* packets arrived: when the tick ends the guard it sets is set.
C22_OncePerTick == last.op = "end_tick" => last.guard

C22_Step ==
    /\ (~damage_this_tick /\ damage_this_tick') =>
        /\ last'.op = "swing"
        /\ last'.hand = "MainHand"
        /\ current_slot = 0
    /\ (last'.op = "swing" /\ last'.hand = "MainHand" /\ current_slot = 0) =>
        damage_this_tick'
    /\ (damage_this_tick /\ last'.op = "swing") =>
        /\ damage_this_tick'
        /\ UNCHANGED <<destroying_state, placed_blocks, stateful_events>>
        /\ last'.sent = <<>>
    /\ (damage_this_tick /\ pc = "packets" /\ pc' = "packets") =>
        damage_this_tick'

\* C22, amended: the continuation is driven by packets, not by the tick. Its
\* body runs only when a Swing with the main hand is handled while slot 0 is
\* selected and the guard is clear, and such a Swing sets the guard; with the
\* guard set a Swing changes nothing, and the guard stays set while the
\* tick's packets are handled: at most one run per tick, none in a tick
\* without such a Swing.
C22_SwingDriven == [][C22_Step]_vars

\* A tick ends without any continuation although a tracked voxel is Started.
C22_Witness ==
    /\ last.op = "end_tick"
    /\ ~last.guard
    /\ packets_handled >= 1
    /\ destroying_state.tag = "Started"
    /\ Tracked(placed_blocks, Host, destroying_state.pos)
    /\ hits_this_tick = 0

\* A Swing with the main hand on slot 8 ran no continuation.
C22_WitnessSlot ==
    /\ last.op = "swing"
    /\ last.hand = "MainHand"
    /\ current_slot = 8
    /\ ~damage_this_tick
    /\ last.before.tag = "Started"

C23_Step ==
    (/\ last'.op = "swing" /\ last'.ran /\ ~last'.guard
     /\ destroying_state.tag = "Started"
     /\ ~Tracked(placed_blocks, Host, destroying_state.pos)) =>
        /\ UNCHANGED <<destroying_state, placed_blocks,
                       destroying_block_sequence, stateful_events>>
        /\ last'.sent = <<>>
        /\ last'.event = None

\* C23: a continuation that runs in Started(coord) while coord is not tracked
\* by the store leaves the phase, the store and the pending ack as they were,
\* writes no packet and emits no BlockBroken event.
C23_UntrackedStartedNoOp == [][C23_Step]_vars

\* The continuation ran on the floor under the anchor while both slots hold
\* voxels.
C23_Witness ==
    /\ Continued
    /\ last.before = Started(Anchor)
    /\ destroying_state = Started(Anchor)
    /\ Tracked(placed_blocks, Host, SlotA)
    /\ Tracked(placed_blocks, Host, SlotB)
    /\ last.sent = <<>>

\* The continuation ran on a slot whose voxel was broken the tick before.
C23_WitnessBroken ==
    /\ Continued
    /\ last.before.tag = "Started"
    /\ last.before.pos \in {SlotA, SlotB}
    /\ last.pre = None
    /\ \E q \in Positions : Tracked(placed_blocks, Host, q)

\* The two slots tick_for fills for the session's player.
Slots == Range(Placements(Anchor))

\* C24: the placement check runs in every tick that begins while the phase is
\* not Idle, so that with something unlocked both slots are tracked when the
\* packets of the tick are handled; and in a tick that begins in phase Idle
\* and whose counter is not a multiple of 20 nothing is placed.
C24_PlacementWhileDestroying ==
    last.op = "begin_tick" =>
        /\ (destroying_state.tag # "None" /\ unlocked_blocks # <<>>) =>
               \A slot \in Slots : Tracked(placed_blocks, Host, slot)
        /\ (destroying_state.tag = "None" /\ current_tick % Cadence # 0) =>
               last.updates = <<>>

\* A tick begins in phase Started with an empty slot, no ack pending, and
\* leaves the slot empty.
C24_StartedNotReplenished ==
    /\ last.op = "begin_tick"
    /\ destroying_state.tag = "Started"
    /\ ~Tracked(placed_blocks, Host, destroying_state.pos)
    /\ destroying_state.pos \in Slots
    /\ unlocked_blocks # <<>>
    /\ last.sent = <<>>

\* A tick that is no multiple of 20 begins in phase Idle with an ack pending
\* and places voxels.
C24_IdlePlaced ==
    /\ last.op = "begin_tick"
    /\ destroying_state.tag = "None"
    /\ current_tick % Cadence # 0
    /\ last.updates # <<>>

\* The last step was tick_for for a player whose partition was missing or
\* empty, with something unlocked.
FreshTickFor ==
    /\ last.op = "tick_for"
    /\ last.unlocked # <<>>
    /\ last.uuid \in DOMAIN last.store => DOMAIN last.store[last.uuid] = {}

\* After it both slots, and nothing else, are tracked with descriptors of the
\* unlocked set, and one section update with the two slots was written.
TwoPlaced ==
    /\ DOMAIN placed_blocks[last.uuid] = Slots
    /\ \A slot \in Slots :
           placed_blocks[last.uuid][slot].block_data \in Range(last.unlocked)
    /\ Len(last.packets) = 1
    /\ last.packets[1].type = "SectionBlocksUpdate"
    /\ last.packets[1].update_info =
           {[block_pos |-> slot,
             block_id |-> placed_blocks[last.uuid][slot].block_data.block_id] :
                slot \in Slots}

PartitionBefore ==
    IF last.uuid \in DOMAIN last.store THEN last.store[last.uuid] ELSE <<>>

\* C26: after tick_for every voxel that was tracked is as it was (descriptor
\* and health); a coordinate is newly tracked only if it is one of the two
\* slots, was untracked, the placement check ran and something is unlocked,
\* and the new voxel has a descriptor of the unlocked set and that
\* descriptor's initial health; with the check running and something
\* unlocked both slots are tracked afterwards.
C26_PlacementOnlyIntoEmptySlots ==
    last.op = "tick_for" =>
        LET before == PartitionBefore
            after == placed_blocks[last.uuid]
            checked == last.tick % Cadence = 0 \/ IsSome(last.pending)
        IN  /\ \A q \in DOMAIN before :
                   q \in DOMAIN after /\ after[q] = before[q]
            /\ \A q \in (DOMAIN after) \ (DOMAIN before) :
                   /\ q \in Slots
                   /\ checked
                   /\ after[q].block_data \in Range(last.unlocked)
                   /\ after[q].health = after[q].block_data.initial_health
            /\ (checked /\ last.unlocked # <<>>) => Slots \subseteq DOMAIN after
            /\ last.unlocked = <<>> => DOMAIN after = DOMAIN before

\* The check ran with one slot holding a damaged voxel and the other empty:
\* the empty one was filled, the damaged one kept.
C26_Witness ==
    /\ last.op = "tick_for"
    /\ last.uuid \in DOMAIN last.store
    /\ \E q \in Slots :
        /\ q \in DOMAIN last.store[last.uuid]
        /\ last.store[last.uuid][q].health = 1
        /\ last.store[last.uuid][q].block_data.initial_health = 2
    /\ \E q \in Slots :
        /\ q \notin DOMAIN last.store[last.uuid]
        /\ q \in DOMAIN placed_blocks[last.uuid]

\* The check ran with nothing unlocked.
C26_WitnessNothingUnlocked ==
    /\ last.op = "tick_for"
    /\ last.unlocked = <<>>
    /\ last.tick = Cadence
    /\ last.uuid = Host
    /\ \E q \in Slots : q \notin DOMAIN placed_blocks[Host]

\* The slots the last tick_for call filled.
NewlyPlaced == (DOMAIN placed_blocks[last.uuid]) \ (DOMAIN PartitionBefore)

PlacedEntry(slot) ==
    [block_pos |-> slot,
     block_id |-> placed_blocks[last.uuid][slot].block_data.block_id]

C27_WitnessNone ==
    /\ last.op = "tick_for"
    /\ last.tick = Cadence
    /\ last.unlocked # <<>>
    /\ NewlyPlaced = {}
    /\ last.packets = <<>>

\* The partitions of every player other than u are the same in pb and pb2.
OtherPartitionsSame(pb, pb2, u) ==
    \A v \in Uuids \ {u} :
        /\ v \in DOMAIN pb2 <=> v \in DOMAIN pb
        /\ v \in DOMAIN pb => pb2[v] = pb[v]

Phases == {Idle} \cup {Started(p) : p \in Positions}
              \cup {Aborted(p) : p \in Positions}

\* C28: a store operation called for one player leaves the partition of every
\* other player as it was, and so do the steps of the destruction state
\* machine that reach the store (continuation and AbortDestroy), run for one
\* player in any phase on any store that can arise.
C28_NoCrossPlayerSharing ==
    /\ last.op \in {"tick_for", "attempt_damage_block", "reset_progress",
                     "remove"} =>
           OtherPartitionsSame(last.store, placed_blocks, last.uuid)
    /\ \A u \in Uuids, ds \in Phases :
        /\ OtherPartitionsSame(placed_blocks,
                               abort_destroying(ds, placed_blocks, u).store, u)
        /\ \A ray \in RayTraces :
               OtherPartitionsSame(
                   placed_blocks,
                   continue_destroying(ds, FALSE, placed_blocks, u, ray).store, u)

\* A voxel of one player is removed at a coordinate where the other player
\* holds a damaged voxel.
C28_Witness ==
    /\ last.op = "remove"
    /\ IsSome(last.ret)
    /\ \E v \in Uuids \ {last.uuid} :
        /\ Tracked(placed_blocks, v, last.pos)
        /\ Health(placed_blocks, v, last.pos) = 0

StraightCast ==
    /\ caster # <<>>
    /\ caster.from = <<0, 0, 0>>
    /\ caster.yaw = Angle(0, 5)
    /\ caster.pitch = Angle(0, 5)
    /\ caster.max_distance = 5

\* C30: what the straight cast has yielded starts at (0,0,0), keeps x = 0 and
\* y = 0, and its z grows strictly, so no coordinate is yielded twice.
C30_StraightCast ==
    StraightCast =>
        LET y == caster.yielded
        IN  /\ y # <<>> => y[1] = <<0, 0, 0>>
            /\ \A i \in DOMAIN y : y[i][1] = 0 /\ y[i][2] = 0
            /\ \A i, j \in DOMAIN y : i < j => y[i][3] < y[j][3]

\* The axis of the smallest fraction, the first of them in the order x, y, z
\* where several are equal.
FirstSmallest(f) ==
    CHOOSE k \in 1..3 :
        /\ \A j \in 1..3 : ~Less(f[j], f[k])
        /\ \A j \in 1..(k - 1) : Less(f[k], f[j])

\* C31: a call of next() that advances does so on one axis only, the one whose
\* fraction is smallest, and of several equal smallest fractions the first in
\* the order x, y, z.
C31_SmallestFractionFirst ==
    last.op = "next" /\ last.axis # 0 =>
        /\ last.axis = FirstSmallest(last.it.frac)
        /\ \A j \in (1..3) \ {last.axis} :
            /\ caster.it.frac[j] = last.it.frac[j]
            /\ caster.it.local[j] = last.it.local[j]

\* The first call of the straight cast has advanced on y, with the fractions
\* of x and y equal and smallest.
C31_TieGoesToLaterAxis ==
    /\ StraightCast
    /\ last.op = "next"
    /\ Len(caster.yielded) = 1
    /\ last.it.frac[1] = last.it.frac[2]
    /\ Less(last.it.frac[1], last.it.frac[3])
    /\ last.axis = 2

\* A number of calls proportional to max_distance: each axis is advanced at
\* most once for every block of the distance, and a few times more.
StepBound(max_distance) == 3 * max_distance + 7

\* C32: the output is finite for every input: the coordinates yielded number
\* at most StepBound(max_distance); a call that follows a None returns None and
\* yields nothing; a cast of distance 0 yields at most one coordinate.
C32_OutputFinite ==
    caster # <<>> =>
        /\ Len(caster.yielded) <= StepBound(caster.max_distance)
        /\ last.op = "next" /\ last.ended => last.ret = None
        /\ caster.max_distance = 0 => Len(caster.yielded) <= 1

\* A cast of distance 0 under a yaw that is not a number has yielded two
\* coordinates and has not ended.
C32_NaNCastGoesOn ==
    /\ caster # <<>>
    /\ caster.yaw = NaNAngle
    /\ caster.max_distance = 0
    /\ Len(caster.yielded) = 2
    /\ caster.it.has_next_block

\* The axes on which the direction of the cast has component zero.
ZeroAxes ==
    IF caster.yaw.nan \/ caster.pitch.nan THEN {}
    ELSE {k \in 1..3 :
            Scaled(direction_from_yaw_pitch(caster.yaw, caster.pitch),
                   caster.max_distance)[k] = 0}

\* C33: two coordinates yielded one after the other differ on at most one
\* axis, and there by at most 1; on an axis where the direction has component
\* zero every coordinate yielded is the same.
C33_OneStepPerYield ==
    caster # <<>> =>
        LET y == caster.yielded
        IN  /\ \A i \in 1..(Len(y) - 1) :
                /\ Cardinality({k \in 1..3 : y[i][k] # y[i + 1][k]}) <= 1
                /\ \A k \in 1..3 : Abs(y[i + 1][k] - y[i][k]) <= 1
            /\ \A k \in ZeroAxes : \A i, j \in DOMAIN y : y[i][k] = y[j][k]

\* A cast level with the ground and oblique to the grid has ended; it has
\* yielded a coordinate twice in a row and has moved on x and on z.
C33_Witness ==
    /\ caster # <<>>
    /\ caster.ended
    /\ ZeroAxes = {2}
    /\ \E i \in 1..(Len(caster.yielded) - 1) :
           caster.yielded[i] = caster.yielded[i + 1]
    /\ \E i, j \in DOMAIN caster.yielded :
        /\ caster.yielded[i][1] # caster.yielded[j][1]
        /\ caster.yielded[i][3] # caster.yielded[j][3]

\* The step in which GlobPlayerState::tick returns: stateful_events is what
\* the continuations of the tick have collected, each BlockBroken for a voxel
\* removed; last'.events is what the session receives.
C34_Step ==
    pc = "packets" /\ pc' = "idle" =>
        mined_after(<<>>, last'.events) = mined_after(<<>>, stateful_events)

\* C34: a voxel removed by a continuation during a tick raises the mined count
\* of its ordinal by exactly 1 in that tick and leaves the other counts as
\* they are: the counts move by what the tick has collected.
C34_BrokenIsCounted == [][C34_Step]_vars

\* The tick has returned without events after a continuation had removed a
\* voxel in it.
C34_EventLost ==
    /\ last.op = "return_not_loaded"
    /\ hits_this_tick = 1
    /\ damage_this_tick
    /\ \E p \in Slots : ~Tracked(placed_blocks, Host, p)

\* C35: a voxel of initial health H is reported broken only when H distinct
\* ticks, since it was placed or last restored, have lowered its health,
\* whatever packets the ticks have handled.
C35_BreakTakesHealthTicks ==
    last.op = "swing" /\ last.event # None =>
        last.ticks >= Unwrap(last.event).block.initial_health

\* A voxel of initial health 2 is reported broken, in its second tick of
\* damage.
C35_Witness ==
    /\ last.op = "swing"
    /\ last.event # None
    /\ Unwrap(last.event).block.initial_health = 2
    /\ last.ticks = 2

\* The voxel of the player at q loses health, or is removed, in the step.
LosesHealth(q) ==
    /\ Tracked(placed_blocks, Host, q)
    /\ \/ ~Tracked(placed_blocks', Host, q)
       \/ Health(placed_blocks', Host, q) < Health(placed_blocks, Host, q)

C36_Step ==
    placed_blocks' # placed_blocks =>
        \A q \in Positions :
            LosesHealth(q) =>
                /\ last'.op = "swing"
                /\ last'.ran
                /\ ~last'.guard
                /\ destroying_state = Started(q)

\* C36: the health of a voxel goes down only in a continuation that begins in
\* phase Started on its coordinate: not in phase Idle or Aborted, not in the
\* continuation that goes from Aborted to Started, and not in StartDestroy,
\* AbortDestroy, StopDestroy or tick_for.
C36_DamageOnlyWhenStarted == [][C36_Step]_vars

\* A continuation begun in phase Started has taken one of the two points of
\* health of its target.
C36_Witness ==
    /\ last.op = "swing"
    /\ last.ran
    /\ ~last.guard
    /\ last.before.tag = "Started"
    /\ last.pre = Some(2)
    /\ HealthOf(placed_blocks, Host, last.before.pos) = Some(1)

\* C37: neither StartDestroy nor StopDestroy changes the voxel store: the
\* presence, descriptor and health of every voxel of every player are the same
\* after the packet as before it, so the damage done to a previous target is
\* still there after the target has changed; and StopDestroy leaves the
\* destruction phase as it was.
C37_Step ==
    /\ last'.op \in {"start", "stop"} => placed_blocks' = placed_blocks
    /\ last'.op = "stop" => destroying_state' = destroying_state

C37_StartStopKeepStore == [][C37_Step]_vars

\* A StartDestroy that moved the target away from a voxel that is still
\* tracked with part of its health gone.
C37_Witness ==
    /\ last.op = "start"
    /\ last.before.tag = "Started"
    /\ last.at_pos # last.before.pos
    /\ Tracked(placed_blocks, Host, last.before.pos)
    /\ Health(placed_blocks, Host, last.before.pos) > 0
    /\ Health(placed_blocks, Host, last.before.pos)
           < InitialHealth(placed_blocks, Host, last.before.pos)

\* A StopDestroy in phase Started on a damaged voxel.
C37_WitnessStop ==
    /\ last.op = "stop"
    /\ last.before.tag = "Started"
    /\ destroying_state = last.before
    /\ Tracked(placed_blocks, Host, last.before.pos)
    /\ Health(placed_blocks, Host, last.before.pos)
           < InitialHealth(placed_blocks, Host, last.before.pos)

\* C38: in every reachable state the health of every tracked voxel of every
\* player lies between 0 and the initial health of its descriptor.
C38_HealthInRange ==
    \A u \in DOMAIN placed_blocks :
        \A p \in DOMAIN placed_blocks[u] :
            /\ 0 <= placed_blocks[u][p].health
            /\ placed_blocks[u][p].health <= placed_blocks[u][p].block_data.initial_health

\* attempt_damage_block was called on a voxel with no health left, which stays
\* tracked at 0, while another voxel of the player is at its initial health.
C38_Witness ==
    /\ last.op = "attempt_damage_block"
    /\ Tracked(last.store, last.uuid, last.pos)
    /\ Health(last.store, last.uuid, last.pos) = 0
    /\ Health(placed_blocks, last.uuid, last.pos) = 0
    /\ \E q \in DOMAIN placed_blocks[last.uuid] :
           /\ q # last.pos
           /\ Health(placed_blocks, last.uuid, q)
                  = InitialHealth(placed_blocks, last.uuid, q)

\* C39: a player's partition tracks voxels only at the two slots
\* anchor + (0, 2, 0) and anchor + (-1, 2, 0), hence at most two voxels per
\* player, whatever coordinate the client has named in StartDestroy.
C39_OnlyTheTwoSlots ==
    \A u \in DOMAIN placed_blocks :
        /\ DOMAIN placed_blocks[u] \subseteq {SlotA, SlotB}
        /\ Cardinality(DOMAIN placed_blocks[u]) <= 2

\* The continuation ran while the client's target was a coordinate that is no
\* slot, with both slots tracked.
C39_Witness ==
    /\ last.op = "swing" /\ last.ran /\ ~last.guard
    /\ last.before.tag = "Started"
    /\ last.before.pos \notin {SlotA, SlotB}
    /\ DOMAIN placed_blocks[Host] = {SlotA, SlotB}

\* C40: with something unlocked and the session ticking, a slot whose voxel
\* was broken and removed in tick t is tracked again when tick t + 20 has run
\* at the latest: no state finds it still empty 20 ticks after the removal.
C40_ReplenishedWithinCadence ==
    last.op = "tick" =>
        \A s \in {SlotA, SlotB} :
            IsSome(last.empty_since[s]) =>
                /\ ~Tracked(placed_blocks, Host, s)
                /\ current_tick - Unwrap(last.empty_since[s]) < Cadence

\* A slot emptied in a tick of the cadence has stayed empty for 19 ticks, the
\* longest a slot can wait.
C40_Witness ==
    /\ last.op = "tick"
    /\ \E s \in {SlotA, SlotB} :
           /\ last.empty_since[s] = Some(Cadence)
           /\ current_tick = 2 * Cadence - 1

\* The tick that ends the wait: the slot emptied in tick 20 is placed in
\* tick 40.
C40_WitnessPlaced ==
    /\ last.op = "tick"
    /\ current_tick = 2 * Cadence
    /\ \E i \in DOMAIN last.updates : last.updates[i].pos = SlotA
    /\ last.empty_since[SlotA] = None

====
